---------------------------- MODULE Spec2Model ----------------------------
(***************************************************************************)
(* Model of the Markdown renderer (class MarkdownParser).  Text is a       *)
(* sequence of one-character strings; every regular expression of the      *)
(* source is an operator that matches the way the JavaScript engine does   *)
(* (leftmost match, greedy and lazy quantifiers, multi-line anchors), and  *)
(* String.prototype.replace with a global pattern is ReplaceAll.  The      *)
(* editor (class MarkdownEditor) is modelled by the handlers that call     *)
(* parse, each one step of the event loop.                                 *)
(***************************************************************************)
EXTENDS Integers, Sequences, FiniteSets, TLC

VARIABLES
  rules,          \* this.rules of the MarkdownParser instance
  markdown,       \* the argument of the parse call
  html,           \* parse's local html
  codeBlocks,     \* parse's local codeBlocks
  inlineCode,     \* parse's local inlineCode
  ruleIdx,        \* the index (from 1) of the rule rules.forEach applies next
  pc,             \* the statement of parse that runs next
  escapeArg,      \* the argument of a direct escapeHtml call
  escapeResults,  \* the results of escapeHtml applied to it once, twice, ...
  calls,          \* the parse calls the instance has answered: argument, result
  build,          \* the source file of the MarkdownEditor class that runs
  parser,         \* this.parser, as what its parse returns for each buffer text
  markdownInput,  \* elements.markdownInput.value, the input buffer
  previewPane,    \* elements.previewPane.innerHTML
  debounceTimer,  \* this.debounceTimer: a timer id, 0 for null
  timers,         \* the ids of handleInput's timeouts neither cleared nor run
  nextTimer,      \* the id the next setTimeout returns
  frames,         \* the html of the pending requestAnimationFrame callbacks
  uncaught,       \* an exception has left an event handler
  exported,       \* the htmlContent of the document saveAsHtml downloaded last
  burst,          \* the input events since the last debounced update ran
  updates,        \* the debounced updates that ran: burst answered, buffer read
  lastUpdate,     \* how the last updatePreview ended: "ok" or "threw"
  events,         \* the number of user events handled
  storage         \* localStorage.getItem('markdownEditor_autoSave')

parseVars == <<markdown, html, codeBlocks, inlineCode, ruleIdx, pc>>

escapeVars == <<escapeArg, escapeResults>>

\* the MarkdownEditor, its page, and the history of its events
editorVars ==
  <<build, parser, markdownInput, previewPane, debounceTimer, timers, nextTimer, frames,
    uncaught, exported, burst, updates, lastUpdate, events, storage>>

\* what the callers of parse and escapeHtml hold
callerVars == <<calls, editorVars>>

vars == <<rules, parseVars, escapeVars, callerVars>>

(***************************************************************************)
(* Character classes of the regular expressions.                           *)
(***************************************************************************)
\* \s
WhiteSpace == {" ", "\t", "\n", "\r"}

\* the characters "." does not match, and at which ^ and $ anchor under /m
LineTerminators == {"\n", "\r"}

\* \d
Digits == {"0", "1", "2", "3", "4", "5", "6", "7", "8", "9"}

Letters ==
  {"a", "b", "c", "d", "e", "f", "g", "h", "i", "j", "k", "l", "m",
   "n", "o", "p", "q", "r", "s", "t", "u", "v", "w", "x", "y", "z",
   "A", "B", "C", "D", "E", "F", "G", "H", "I", "J", "K", "L", "M",
   "N", "O", "P", "Q", "R", "S", "T", "U", "V", "W", "X", "Y", "Z"}

\* \w
WordChars == Letters \cup Digits \cup {"_"}

(***************************************************************************)
(* Sequence helpers.                                                       *)
(***************************************************************************)
\* text has pat at position i
StartsWithAt(text, i, pat) ==
  /\ i >= 1
  /\ i + Len(pat) - 1 <= Len(text)
  /\ \A k \in 1..Len(pat) : text[i + k - 1] = pat[k]

Min(S) == CHOOSE x \in S : \A y \in S : x <= y

Max(S) == CHOOSE x \in S : \A y \in S : y <= x

\* the first index j >= i whose character is not in S (Len(text)+1 if none)
ScanWhile(text, i, S) ==
  LET H == {j \in i..Len(text) : text[j] \notin S}
  IN IF H = {} THEN Len(text) + 1 ELSE Min(H)

\* the first index j >= i whose character is in S (Len(text)+1 if none)
ScanUntil(text, i, S) ==
  LET H == {j \in i..Len(text) : text[j] \in S}
  IN IF H = {} THEN Len(text) + 1 ELSE Min(H)

\* the indices j >= i at which pat starts
Occurrences(text, i, pat) ==
  {j \in i..(Len(text) - Len(pat) + 1) : StartsWithAt(text, j, pat)}

\* the first index j >= i at which pat starts (0 if none)
IndexOfFrom(text, i, pat) ==
  LET H == Occurrences(text, i, pat)
  IN IF H = {} THEN 0 ELSE Min(H)

\* the last index j in lo..hi whose character is c (0 if none)
LastIndexIn(text, lo, hi, c) ==
  LET H == {j \in lo..hi : text[j] = c}
  IN IF H = {} THEN 0 ELSE Max(H)

\* the concatenation of a sequence of sequences
RECURSIVE Concat(_)
Concat(ss) ==
  IF Len(ss) = 0 THEN <<>>
  ELSE IF Len(ss) = 1 THEN ss[1]
  ELSE LET h == Len(ss) \div 2
       IN Concat(SubSeq(ss, 1, h)) \o Concat(SubSeq(ss, h + 1, Len(ss)))

\* the number of (possibly overlapping) occurrences of pat in text
Count(text, pat) == Cardinality(Occurrences(text, 1, pat))

Contains(text, pat) == IndexOfFrom(text, 1, pat) # 0

\* trim removing the white space in front only
trimStart(text) ==
  LET H == {j \in 1..Len(text) : text[j] \notin {" ", "\t", "\n", "\r"}}
  IN IF H = {} THEN <<>> ELSE SubSeq(text, Min(H), Len(text))

\* String.prototype.trim
trim(text) ==
  LET H == {j \in 1..Len(text) : text[j] \notin WhiteSpace}
  IN IF H = {} THEN <<>> ELSE SubSeq(text, Min(H), Max(H))

\* String.prototype.split with a one-character separator
RECURSIVE split(_, _)
split(text, c) ==
  LET j == ScanUntil(text, 1, {c})
  IN IF j > Len(text) THEN <<text>>
     ELSE <<SubSeq(text, 1, j - 1)>> \o split(SubSeq(text, j + 1, Len(text)), c)

\* String.prototype.split(/\r?\n/)
splitLines(text) ==
  LET raw == split(text, "\n")
      strip(l, last) ==
        IF ~last /\ Len(l) > 0 /\ l[Len(l)] = "\r" THEN SubSeq(l, 1, Len(l) - 1) ELSE l
  IN [k \in 1..Len(raw) |-> strip(raw[k], k = Len(raw))]

\* Array.prototype.filter(x => x !== '')
RECURSIVE filterNonEmpty(_)
filterNonEmpty(ss) ==
  IF ss = <<>> THEN <<>>
  ELSE (IF Head(ss) = <<>> THEN <<>> ELSE <<Head(ss)>>) \o filterNonEmpty(Tail(ss))

\* the decimal digits of a natural number, as `${n}` prints it
RECURSIVE numberToString(_)
numberToString(n) ==
  LET d == <<"0", "1", "2", "3", "4", "5", "6", "7", "8", "9">>
  IN IF n < 10 THEN <<d[n + 1]>> ELSE numberToString(n \div 10) \o <<d[(n % 10) + 1]>>

(***************************************************************************)
(* Markup the renderer emits.                                              *)
(***************************************************************************)
OpenTag(name) == <<"<">> \o name \o <<">">>

CloseTag(name) == <<"<", "/">> \o name \o <<">">>

Wrap(name, body) == OpenTag(name) \o body \o CloseTag(name)

StrongEmOpen == 
  <<"<", "s", "t", "r", "o", "n", "g", ">", "<", "e", "m", ">">>

StrongEmClose == 
  <<"<", "/", "e", "m", ">", "<", "/", "s", "t", "r", "o", "n", "g", ">">>

Blockquote == <<"b", "l", "o", "c", "k", "q", "u", "o", "t", "e">>

Strong == <<"s", "t", "r", "o", "n", "g">>

TaskItemOpen == 
  <<"<", "u", "l", " ", "c", "l", "a", "s", "s", "=", "\"", "t", "a", "s",
  "k", "-", "l", "i", "s", "t", "\"", ">", "<", "l", "i", " ", "c", "l",
  "a", "s", "s", "=", "\"", "t", "a", "s", "k", "-", "i", "t", "e", "m",
  "\"", ">">>

CheckboxOpen == 
  <<"<", "i", "n", "p", "u", "t", " ", "t", "y", "p", "e", "=", "\"", "c",
  "h", "e", "c", "k", "b", "o", "x", "\"", " ">>

CheckedAttr == <<"c", "h", "e", "c", "k", "e", "d">>

CheckboxClose == <<" ", "d", "i", "s", "a", "b", "l", "e", "d", ">">>

PreCodeOpen == 
  <<"<", "p", "r", "e", ">", "<", "c", "o", "d", "e", " ", "c", "l", "a",
  "s", "s", "=", "\"", "l", "a", "n", "g", "u", "a", "g", "e", "-">>

PreCodeClose == CloseTag(<<"c", "o", "d", "e">>) \o CloseTag(<<"p", "r", "e">>)

Plaintext == <<"p", "l", "a", "i", "n", "t", "e", "x", "t">>

AnchorOpen == <<"<", "a", " ", "h", "r", "e", "f", "=", "\"">>

ImgOpen == <<"<", "i", "m", "g", " ", "s", "r", "c", "=", "\"">>

ImgAlt == <<"\"", " ", "a", "l", "t", "=", "\"">>

TableOpen == 
  <<"<", "t", "a", "b", "l", "e", " ", "c", "l", "a", "s", "s", "=", "\"",
  "m", "a", "r", "k", "d", "o", "w", "n", "-", "t", "a", "b", "l", "e",
  "\"", ">", "\n", "<", "t", "h", "e", "a", "d", ">", "\n", "<", "t", "r",
  ">", "\n">>

TableMid == 
  <<"<", "/", "t", "r", ">", "\n", "<", "/", "t", "h", "e", "a", "d", ">",
  "\n", "<", "t", "b", "o", "d", "y", ">", "\n">>

TableClose == 
  <<"<", "/", "t", "b", "o", "d", "y", ">", "\n", "<", "/", "t", "a", "b",
  "l", "e", ">">>

StyleOpen == 
  <<" ", "s", "t", "y", "l", "e", "=", "\"", "t", "e", "x", "t", "-", "a",
  "l", "i", "g", "n", ":", " ">>

CodeBlockKey == 
  <<"_", "_", "_", "C", "O", "D", "E", "_", "B", "L", "O", "C", "K", "_">>

InlineCodeKey == 
  <<"_", "_", "_", "I", "N", "L", "I", "N", "E", "_", "C", "O", "D", "E",
  "_">>

\* the grave accent U+0060, which a TLA+ string literal cannot hold
Backtick == "GRAVE"

Fence == <<Backtick, Backtick, Backtick>>

(***************************************************************************)
(* escapeHtml(text): replace each of the five characters of escapeMap.     *)
(***************************************************************************)
\* escapeMap without its entry for the ampersand
escapeMapWithoutAmpersand(char) ==
  CASE char = "<" -> <<"&", "l", "t", ";">>
    [] char = ">" -> <<"&", "g", "t", ";">>
    [] char = "\"" -> <<"&", "q", "u", "o", "t", ";">>
    [] char = "'" -> <<"&", "#", "3", "9", ";">>
    [] OTHER -> <<char>>

escapeMap(char) ==
  CASE char = "&" -> <<"&", "a", "m", "p", ";">>
    [] char = "<" -> <<"&", "l", "t", ";">>
    [] char = ">" -> <<"&", "g", "t", ";">>
    [] char = "\"" -> <<"&", "q", "u", "o", "t", ";">>
    [] char = "'" -> <<"&", "#", "3", "9", ";">>
    [] OTHER -> <<char>>

escapeHtml(text) == Concat([k \in 1..Len(text) |-> escapeMap(text[k])])

(***************************************************************************)
(* Matching.  A match is [end |-> index of its last character, out |-> the *)
(* replacement text]; end = 0 means the pattern does not match there.  No  *)
(* pattern of the source matches the empty string.                         *)
(***************************************************************************)
NoMatch == [end |-> 0, out |-> <<>>]

\* ^ under /m
IsLineStart(text, i) == i = 1 \/ text[i - 1] \in LineTerminators

\* $ under /m, asked at the index after the last matched character
IsLineEnd(text, j) == j > Len(text) \/ text[j] \in LineTerminators

\* the last index in lo..hi whose character is not a line terminator (0 if none)
LastDotIn(text, lo, hi) ==
  LET H == {j \in lo..hi : text[j] \notin LineTerminators}
  IN IF H = {} THEN 0 ELSE Max(H)

\* \s+(.+)$ from index p: the bounds of group (.+), gs = 0 when it fails.
\* \s+ is greedy and spans line breaks; when the white space runs to the end
\* of the text it gives back characters until "." can take one.
TailMatch(text, p) ==
  LET w == ScanWhile(text, p, WhiteSpace)
  IN IF w <= p THEN [gs |-> 0, ge |-> 0]
     ELSE IF w <= Len(text)
       THEN [gs |-> w, ge |-> ScanUntil(text, w, LineTerminators) - 1]
       ELSE LET g == LastDotIn(text, p + 1, Len(text))
            IN [gs |-> g, ge |-> g]

\* the index at which the lazy (.+?) that began at j - 1 ends and the closing
\* delimiter d starts: the first d from j on, with no line break before it
FindClose(text, j, d) ==
  LET stop == ScanUntil(text, j - 1, LineTerminators)
      k == IndexOfFrom(text, j, d)
  IN IF k # 0 /\ k <= stop THEN k ELSE 0

\* ^#{level}\s+(.+)$  ->  <h$level>$1</h$level>
MatchHeading(level, text, i) ==
  IF IsLineStart(text, i) /\ StartsWithAt(text, i, [k \in 1..level |-> "#"])
  THEN LET t == TailMatch(text, i + level)
           h == <<"h", numberToString(level)[1]>>
       IN IF t.gs = 0 THEN NoMatch
          ELSE [end |-> t.ge, out |-> Wrap(h, SubSeq(text, t.gs, t.ge))]
  ELSE NoMatch

\* ^ccc+$  ->  <hr>
MatchHorizontalRule(c, text, i) ==
  IF IsLineStart(text, i) /\ text[i] = c
  THEN LET j == ScanWhile(text, i, {c})
       IN IF j - i >= 3 /\ IsLineEnd(text, j)
          THEN [end |-> j - 1, out |-> <<"<", "h", "r", ">">>]
          ELSE NoMatch
  ELSE NoMatch

\* d(.+?)d  ->  open $1 close
MatchDelimited(d, open, close, text, i) ==
  IF StartsWithAt(text, i, d)
  THEN LET j == FindClose(text, i + Len(d) + 1, d)
       IN IF j = 0 THEN NoMatch
          ELSE [end |-> j + Len(d) - 1,
                out |-> open \o SubSeq(text, i + Len(d), j - 1) \o close]
  ELSE NoMatch

\* ```(\w+)?\n([\s\S]*?)```  ->  <pre><code class="language-...">...</code></pre>
MatchCodeBlockRule(text, i) ==
  IF StartsWithAt(text, i, Fence)
  THEN LET j == ScanWhile(text, i + 3, WordChars)
           k == IF j <= Len(text) /\ text[j] = "\n"
                THEN IndexOfFrom(text, j + 1, Fence) ELSE 0
           lang == SubSeq(text, i + 3, j - 1)
           language == IF lang = <<>> THEN Plaintext ELSE lang
       IN IF k = 0 THEN NoMatch
          ELSE [end |-> k + 2,
                out |-> PreCodeOpen \o language \o <<"\"", ">">>
                        \o escapeHtml(trim(SubSeq(text, j + 1, k - 1)))
                        \o PreCodeClose]
  ELSE NoMatch

\* the index of the closing backtick of `[^`]+` opened at i (0 if none)
InlineCodeEnd(text, i) ==
  IF i <= Len(text) /\ text[i] = Backtick
  THEN LET j == ScanUntil(text, i + 1, {Backtick})
       IN IF j <= Len(text) /\ j > i + 1 THEN j ELSE 0
  ELSE 0

\* `([^`]+)`  ->  <code>$1</code>
MatchInlineCodeRule(text, i) ==
  LET j == InlineCodeEnd(text, i)
  IN IF j = 0 THEN NoMatch
     ELSE [end |-> j, out |-> Wrap(<<"c", "o", "d", "e">>, SubSeq(text, i + 1, j - 1))]

\* \[([^\]]minLabel..)\]\(([^)]+)\) from the "[" at index b: the indices of
\* "]" and ")" (both 0 when it fails)
BracketParen(text, b, minLabel) ==
  LET j == ScanUntil(text, b + 1, {"]"})
      k == ScanUntil(text, j + 2, {")"})
  IN IF /\ b <= Len(text) /\ text[b] = "["
        /\ j <= Len(text) /\ j - (b + 1) >= minLabel
        /\ j + 1 <= Len(text) /\ text[j + 1] = "("
        /\ k <= Len(text) /\ k > j + 2
     THEN [rb |-> j, rp |-> k]
     ELSE [rb |-> 0, rp |-> 0]

\* \[([^\]]+)\]\(([^)]+)\)  ->  <a href="$2">$1</a>
MatchLink(text, i) ==
  LET m == BracketParen(text, i, 1)
  IN IF m.rb = 0 THEN NoMatch
     ELSE [end |-> m.rp,
           out |-> AnchorOpen \o SubSeq(text, m.rb + 2, m.rp - 1) \o <<"\"", ">">>
                   \o SubSeq(text, i + 1, m.rb - 1) \o CloseTag(<<"a">>)]

\* !\[([^\]]*)\]\(([^)]+)\)  ->  <img src="$2" alt="$1">
MatchImage(text, i) ==
  LET m == BracketParen(text, i + 1, 0)
  IN IF text[i] # "!" \/ m.rb = 0 THEN NoMatch
     ELSE [end |-> m.rp,
           out |-> ImgOpen \o SubSeq(text, m.rb + 2, m.rp - 1) \o ImgAlt
                   \o SubSeq(text, i + 2, m.rb - 1) \o <<"\"", ">">>]

\* ^>\s+(.+)$  ->  <blockquote>$1</blockquote>
MatchBlockquote(text, i) ==
  IF IsLineStart(text, i) /\ text[i] = ">"
  THEN LET t == TailMatch(text, i + 1)
       IN IF t.gs = 0 THEN NoMatch
          ELSE [end |-> t.ge, out |-> Wrap(Blockquote, SubSeq(text, t.gs, t.ge))]
  ELSE NoMatch

\* [ x] : the class of the check mark in the task-list pattern
TaskMarks == {" ", "x"}

\* String.prototype.toLowerCase on the one character the task rule captures
toLowerCase(c) == IF c = "X" THEN "x" ELSE c

\* ^[\*\-\+]\s+\[([ x])\]\s+(.+)$  ->  task-list item with a disabled checkbox
MatchTask(text, i) ==
  IF IsLineStart(text, i) /\ text[i] \in {"*", "-", "+"}
  THEN LET w == ScanWhile(text, i + 1, WhiteSpace)
           ok == /\ w > i + 1
                 /\ w + 2 <= Len(text)
                 /\ text[w] = "["
                 /\ text[w + 1] \in TaskMarks
                 /\ text[w + 2] = "]"
           t == TailMatch(text, w + 3)
       IN IF ~ok THEN NoMatch
          ELSE IF t.gs = 0 THEN NoMatch
          ELSE LET isChecked == toLowerCase(text[w + 1]) = "x"
                   checkboxHtml == CheckboxOpen
                                   \o (IF isChecked THEN CheckedAttr ELSE <<>>)
                                   \o CheckboxClose
               IN [end |-> t.ge,
                   out |-> TaskItemOpen \o checkboxHtml \o <<" ">>
                           \o SubSeq(text, t.gs, t.ge)
                           \o CloseTag(<<"l", "i">>) \o CloseTag(<<"u", "l">>)]
  ELSE NoMatch

\* <list><li>item</li></list>
ListItem(list, item) == Wrap(list, Wrap(<<"l", "i">>, item))

\* ^[\*\-\+]\s+(.+)$  ->  <ul><li>$1</li></ul>
MatchUnordered(text, i) ==
  IF IsLineStart(text, i) /\ text[i] \in {"*", "-", "+"}
  THEN LET t == TailMatch(text, i + 1)
       IN IF t.gs = 0 THEN NoMatch
          ELSE [end |-> t.ge, out |-> ListItem(<<"u", "l">>, SubSeq(text, t.gs, t.ge))]
  ELSE NoMatch

\* ^\d+\.\s+(.+)$  ->  <ol><li>$1</li></ol>
MatchOrdered(text, i) ==
  IF IsLineStart(text, i) /\ text[i] \in Digits
  THEN LET j == ScanWhile(text, i, Digits)
           t == TailMatch(text, j + 1)
       IN IF j > Len(text) \/ text[j] # "." THEN NoMatch
          ELSE IF t.gs = 0 THEN NoMatch
          ELSE [end |-> t.ge, out |-> ListItem(<<"o", "l">>, SubSeq(text, t.gs, t.ge))]
  ELSE NoMatch

\* ^(?!<[^>]+>)([^\n]+)$ ; the replacement keeps a line whose trimmed text
\* starts with "<" and wraps any other in <p>
MatchParagraph(text, i) ==
  IF IsLineStart(text, i) /\ text[i] # "\n"
  THEN LET g == ScanUntil(text, i + 1, {">"})
           tag == text[i] = "<" /\ g <= Len(text) /\ g > i + 1
           e == ScanUntil(text, i, {"\n"}) - 1
           line == SubSeq(text, i, e)
       IN IF tag THEN NoMatch
          ELSE IF ~IsLineEnd(text, e + 1) THEN NoMatch
          ELSE [end |-> e,
                out |-> IF StartsWithAt(trim(line), 1, <<"<">>) THEN line
                        ELSE Wrap(<<"p">>, line)]
  ELSE NoMatch

(***************************************************************************)
(* The ordered rule list of initializeRules, and the rules of parseInline. *)
(***************************************************************************)
Em == <<"e", "m">>

Del == <<"d", "e", "l">>

Delimited(d, open, close) == [kind |-> "delimited", d |-> d, open |-> open, close |-> close]

\* the one-marker rule for *, standing where the three-marker rule stands
ItalicStarInFront == Delimited(<<"*">>, OpenTag(Em), CloseTag(Em))

BoldItalicStar == Delimited(<<"*", "*", "*">>, StrongEmOpen, StrongEmClose)

BoldItalicUnderscore == Delimited(<<"_", "_", "_">>, StrongEmOpen, StrongEmClose)

BoldStar == Delimited(<<"*", "*">>, OpenTag(Strong), CloseTag(Strong))

BoldUnderscore == Delimited(<<"_", "_">>, OpenTag(Strong), CloseTag(Strong))

ItalicStar == Delimited(<<"*">>, OpenTag(Em), CloseTag(Em))

ItalicUnderscore == Delimited(<<"_">>, OpenTag(Em), CloseTag(Em))

Strikethrough == Delimited(<<"~", "~">>, OpenTag(Del), CloseTag(Del))

Heading(level) == [kind |-> "heading", level |-> level]

HorizontalRule(c) == [kind |-> "hr", c |-> c]

Simple(kind) == [kind |-> kind]

initializeRules ==
  << Heading(6), Heading(5), Heading(4), Heading(3), Heading(2), Heading(1),
     HorizontalRule("-"), HorizontalRule("*"), HorizontalRule("_"),
     BoldItalicStar, BoldItalicUnderscore,
     BoldStar, BoldUnderscore,
     ItalicStar, ItalicUnderscore,
     Strikethrough,
     Simple("codeblock"),
     Simple("inlinecode"),
     Simple("link"),
     Simple("image"),
     Simple("blockquote"),
     Simple("task"),
     Simple("unordered"),
     Simple("ordered"),
     Simple("paragraph") >>

inlineRules ==
  << BoldItalicStar, BoldItalicUnderscore,
     BoldStar, BoldUnderscore,
     ItalicStar, ItalicUnderscore,
     Strikethrough,
     Simple("inlinecode"),
     Simple("link") >>

\* the match of one rule's pattern at index i, with its replacement
MatchAt(rule, text, i) ==
  CASE rule.kind = "heading" -> MatchHeading(rule.level, text, i)
    [] rule.kind = "hr" -> MatchHorizontalRule(rule.c, text, i)
    [] rule.kind = "delimited" -> MatchDelimited(rule.d, rule.open, rule.close, text, i)
    [] rule.kind = "codeblock" -> MatchCodeBlockRule(text, i)
    [] rule.kind = "inlinecode" -> MatchInlineCodeRule(text, i)
    [] rule.kind = "link" -> MatchLink(text, i)
    [] rule.kind = "image" -> MatchImage(text, i)
    [] rule.kind = "blockquote" -> MatchBlockquote(text, i)
    [] rule.kind = "task" -> MatchTask(text, i)
    [] rule.kind = "unordered" -> MatchUnordered(text, i)
    [] rule.kind = "ordered" -> MatchOrdered(text, i)
    [] rule.kind = "paragraph" -> MatchParagraph(text, i)

\* text.replace(pattern, replacement) with a global pattern: the leftmost
\* match from index i on is replaced, and the search goes on after it
RECURSIVE ReplaceFrom(_, _, _)
ReplaceFrom(rule, text, i) ==
  LET H == {j \in i..Len(text) : MatchAt(rule, text, j).end # 0}
  IN IF H = {} THEN SubSeq(text, i, Len(text))
     ELSE LET j == Min(H)
              m == MatchAt(rule, text, j)
          IN SubSeq(text, i, j - 1) \o m.out \o ReplaceFrom(rule, text, m.end + 1)

ReplaceAll(rule, text) == ReplaceFrom(rule, text, 1)

\* rules.forEach(rule => text = text.replace(rule.pattern, rule.replacement)),
\* from rule k on
RECURSIVE ApplyRules(_, _, _)
ApplyRules(ruleList, k, text) ==
  IF k > Len(ruleList) \/ Len(text) = 0 THEN text
  ELSE ApplyRules(ruleList, k + 1, ReplaceAll(ruleList[k], text))

parseInline(text) == IF text = <<>> THEN <<>> ELSE ApplyRules(inlineRules, 1, text)

(***************************************************************************)
(* parseTables(text)                                                       *)
(***************************************************************************)
\* \|.*\|(?:\r?\n|\r)? from index s: the index of its last character (0 if it
\* fails).  ".*" is greedy, so the closing "|" is the last one of the line.
RowEnd(text, s) ==
  IF s <= Len(text) /\ text[s] = "|"
  THEN LET e == ScanUntil(text, s + 1, LineTerminators)
           lp == LastIndexIn(text, s + 1, e - 1, "|")
       IN IF lp = 0 THEN 0
          ELSE IF StartsWithAt(text, lp + 1, <<"\r", "\n">>) THEN lp + 2
          ELSE IF lp + 1 <= Len(text) /\ text[lp + 1] \in {"\n", "\r"} THEN lp + 1
          ELSE lp
  ELSE 0

\* (?:\|.*\|(?:\r?\n|\r)?)+ from index s: the index of its last character
RECURSIVE RowsEnd(_, _)
RowsEnd(text, s) ==
  LET r == RowEnd(text, s)
  IN IF r = 0 THEN 0
     ELSE LET more == RowsEnd(text, r + 1)
          IN IF more = 0 THEN r ELSE more

\* tablePattern = /(?:^|\n)((?:\|.*\|(?:\r?\n|\r)?)+)/gm at index i:
\* s is where group 1 starts and e where the match ends (0, 0 if no match)
MatchTablePattern(text, i) ==
  LET viaCaret == IF IsLineStart(text, i) THEN RowsEnd(text, i) ELSE 0
      viaBreak == IF text[i] = "\n" THEN RowsEnd(text, i + 1) ELSE 0
  IN IF viaCaret # 0 THEN [s |-> i, e |-> viaCaret]
     ELSE IF viaBreak # 0 THEN [s |-> i + 1, e |-> viaBreak]
     ELSE [s |-> 0, e |-> 0]

\* \s*:?-*:?\s* over a whole cell: a cell that needs no dash
IsSeparatorCellWithoutDash(cell) ==
  LET a == ScanWhile(cell, 1, WhiteSpace)
      b == IF a <= Len(cell) /\ cell[a] = ":" THEN a + 1 ELSE a
      c == ScanWhile(cell, b, {"-"})
      d == IF c <= Len(cell) /\ cell[c] = ":" THEN c + 1 ELSE c
  IN ScanWhile(cell, d, WhiteSpace) = Len(cell) + 1

\* \s*:?-+:?\s* over a whole cell
IsSeparatorCell(cell) ==
  LET a == ScanWhile(cell, 1, WhiteSpace)
      b == IF a <= Len(cell) /\ cell[a] = ":" THEN a + 1 ELSE a
      c == ScanWhile(cell, b, {"-"})
      d == IF c <= Len(cell) /\ cell[c] = ":" THEN c + 1 ELSE c
  IN c > b /\ ScanWhile(cell, d, WhiteSpace) = Len(cell) + 1

\* separatorLine.match(/^\|?\s*:?-+:?\s*(\|\s*:?-+:?\s*)*\|?$/)
IsSeparatorLine(line) ==
  LET a == IF Len(line) >= 1 /\ line[1] = "|" THEN 2 ELSE 1
      b == IF Len(line) >= a /\ line[Len(line)] = "|" THEN Len(line) - 1 ELSE Len(line)
      cells == split(SubSeq(line, a, b), "|")
  IN \A k \in 1..Len(cells) : IsSeparatorCell(cells[k])

\* line.split('|').map(c => c.trim()).filter(c => c !== '')
splitCells(line) ==
  LET raw == split(line, "|")
  IN filterNonEmpty([k \in 1..Len(raw) |-> trim(raw[k])])

Left == <<"l", "e", "f", "t">>

Right == <<"r", "i", "g", "h", "t">>

Center == <<"c", "e", "n", "t", "e", "r">>

\* alignmentOf looking only at the end of the cell
alignmentOfEndOnly(sep) == IF sep[Len(sep)] = ":" THEN Right ELSE Left

\* the alignment of one separator cell
alignmentOf(sep) ==
  IF sep[1] = ":" /\ sep[Len(sep)] = ":" THEN Center
  ELSE IF sep[Len(sep)] = ":" THEN Right
  ELSE Left

\* <tag style>cell</tag>\n for column i
tableCell(tag, alignments, i, cell) ==
  LET align == IF i <= Len(alignments) THEN alignments[i] ELSE Left
      style == IF align # Left THEN StyleOpen \o align \o <<"\"">> ELSE <<>>
  IN <<"<">> \o tag \o style \o <<">">> \o parseInline(cell) \o CloseTag(tag) \o <<"\n">>

\* one body row; a row without cells renders nothing
tableRow(alignments, row) ==
  IF Len(row) > 0
  THEN OpenTag(<<"t", "r">>) \o <<"\n">>
       \o Concat([i \in 1..Len(row) |-> tableCell(<<"t", "d">>, alignments, i, row[i])])
       \o CloseTag(<<"t", "r">>) \o <<"\n">>
  ELSE <<>>

\* the replacement function of parseTables: match is the whole match and
\* tableText its group 1
\* the alignments of the cells of the separator line
alignmentsOf(seps) == [k \in 1..Len(seps) |-> alignmentOf(seps[k])]

\* tableHtml, from the header cells, the alignments and the rows' cells
tableHtml(headers, alignments, rows) ==
  TableOpen
  \o Concat([i \in 1..Len(headers) |->
               tableCell(<<"t", "h">>, alignments, i, headers[i])])
  \o TableMid
  \o Concat([k \in 1..Len(rows) |-> tableRow(alignments, rows[k])])
  \o TableClose

\* the replacement for the lines of a matched run
tableOf(match, lines) ==
  IF Len(lines) < 2 THEN match
  ELSE IF ~IsSeparatorLine(lines[2]) THEN match
  ELSE <<"\n">>
       \o tableHtml(splitCells(lines[1]), alignmentsOf(splitCells(lines[2])),
                    [k \in 1..(Len(lines) - 2) |-> splitCells(lines[k + 2])])
       \o <<"\n">>

tableReplacement(match, tableText) == tableOf(match, splitLines(trim(tableText)))

\* text.replace(tablePattern, ...) from index i on
RECURSIVE parseTablesFrom(_, _)
parseTablesFrom(text, i) ==
  LET H == {j \in i..Len(text) : MatchTablePattern(text, j).e # 0}
  IN IF H = {} THEN SubSeq(text, i, Len(text))
     ELSE LET j == Min(H)
              m == MatchTablePattern(text, j)
          IN SubSeq(text, i, j - 1)
             \o tableReplacement(SubSeq(text, j, m.e), SubSeq(text, m.s, m.e))
             \o parseTablesFrom(text, m.e + 1)

parseTables(text) == parseTablesFrom(text, 1)

(***************************************************************************)
(* parse(markdown): protect code, tables, rules, restore, consolidate.     *)
(***************************************************************************)
Underscores == <<"_", "_", "_">>

\* `___CODE_BLOCK_${index}___` and `___INLINE_CODE_${index}___`
placeholder(key, index) == key \o numberToString(index) \o Underscores

\* /```[\s\S]*?```/ at index i: the index of its last character (0 if none)
FenceEnd(text, i) ==
  IF StartsWithAt(text, i, Fence)
  THEN LET k == IndexOfFrom(text, i + 3, Fence)
       IN IF k = 0 THEN 0 ELSE k + 2
  ELSE 0

\* html.replace(pattern, match => { table.push(match); return placeholder })
\* from index i on, with n matches pushed so far
protectedEnd(key, text, i) ==
  IF key = CodeBlockKey THEN FenceEnd(text, i) ELSE InlineCodeEnd(text, i)

RECURSIVE protectFrom(_, _, _, _)
protectFrom(key, text, i, n) ==
  LET H == {j \in i..Len(text) : protectedEnd(key, text, j) # 0}
  IN IF H = {} THEN [html |-> SubSeq(text, i, Len(text)), table |-> <<>>]
     ELSE LET j == Min(H)
              e == protectedEnd(key, text, j)
              rest == protectFrom(key, text, e + 1, n + 1)
          IN [html |-> SubSeq(text, i, j - 1) \o placeholder(key, n) \o rest.html,
              table |-> <<SubSeq(text, j, e)>> \o rest.table]

\* the first protect step left out: no fenced block is extracted
protectNoCodeBlocks(text) == [html |-> text, table |-> <<>>]

protectCodeBlocks(text) == protectFrom(CodeBlockKey, text, 1, 0)

protectInlineCode(text) == protectFrom(InlineCodeKey, text, 1, 0)

\* text.replace(key, () => by) with a string key: the first occurrence only
replaceFirst(text, key, by) ==
  LET p == IndexOfFrom(text, 1, key)
  IN IF p = 0 THEN text
     ELSE SubSeq(text, 1, p - 1) \o by \o SubSeq(text, p + Len(key), Len(text))

\* the markup of a protected fenced block:
\* block.match(/```(\w+)?\n?([\s\S]*?)```/), language, escaped trimmed body
renderCodeBlock(block) ==
  LET j == ScanWhile(block, 4, WordChars)
      b == IF j <= Len(block) /\ block[j] = "\n" THEN j + 1 ELSE j
      k == IndexOfFrom(block, b, Fence)
      lang == IF j = 4 THEN Plaintext ELSE SubSeq(block, 4, j - 1)
  IN IF k = 0 THEN block
     ELSE PreCodeOpen \o lang \o <<"\"", ">">>
          \o escapeHtml(trim(SubSeq(block, b, k - 1))) \o PreCodeClose

\* the markup of a protected inline span: code.slice(1, -1), escaped
renderInlineCode(code) ==
  Wrap(<<"c", "o", "d", "e">>, escapeHtml(SubSeq(code, 2, Len(code) - 1)))

\* codeBlocks.forEach((block, index) => html = html.replace(key(index), ...))
RECURSIVE restoreCodeBlocks(_, _, _)
restoreCodeBlocks(text, blocks, index) ==
  IF index >= Len(blocks) THEN text
  ELSE restoreCodeBlocks(
         replaceFirst(text, placeholder(CodeBlockKey, index),
                      renderCodeBlock(blocks[index + 1])),
         blocks, index + 1)

RECURSIVE restoreInlineCode(_, _, _)
restoreInlineCode(text, codes, index) ==
  IF index >= Len(codes) THEN text
  ELSE restoreInlineCode(
         replaceFirst(text, placeholder(InlineCodeKey, index),
                      renderInlineCode(codes[index + 1])),
         codes, index + 1)

\* /(close\s*open)/g  ->  by
MatchAdjacent(close, open, by, text, i) ==
  IF StartsWithAt(text, i, close)
  THEN LET w == ScanWhile(text, i + Len(close), WhiteSpace)
       IN IF StartsWithAt(text, w, open)
          THEN [end |-> w + Len(open) - 1, out |-> by]
          ELSE NoMatch
  ELSE NoMatch

RECURSIVE replaceAdjacentFrom(_, _, _, _, _)
replaceAdjacentFrom(close, open, by, text, i) ==
  LET H == {j \in i..Len(text) : MatchAdjacent(close, open, by, text, j).end # 0}
  IN IF H = {} THEN SubSeq(text, i, Len(text))
     ELSE LET j == Min(H)
              m == MatchAdjacent(close, open, by, text, j)
          IN SubSeq(text, i, j - 1) \o m.out
             \o replaceAdjacentFrom(close, open, by, text, m.end + 1)

Ul == <<"u", "l">>

Ol == <<"o", "l">>

\* consolidateLists with neither replace: the text as it came
consolidateListsSkipped(text) == text

\* the opening tag of a task-list fragment
TaskListTag ==
  <<"<", "u", "l", " ", "c", "l", "a", "s", "s", "=", "\"", "t", "a", "s", "k", "-", "l", "i", "s", "t", "\"", ">">>

\* consolidateLists deleting the pair before a <ul> with the task-list class
\* as well
consolidateListsOfAnyClass(text) ==
  LET unordered == replaceAdjacentFrom(CloseTag(Ul), OpenTag(Ul), <<>>, text, 1)
      tasks == replaceAdjacentFrom(CloseTag(Ul), TaskListTag, <<>>, unordered, 1)
  IN replaceAdjacentFrom(CloseTag(Ol), OpenTag(Ol), <<>>, tasks, 1)

consolidateLists(text) ==
  LET unordered == replaceAdjacentFrom(CloseTag(Ul), OpenTag(Ul), <<>>, text, 1)
  IN replaceAdjacentFrom(CloseTag(Ol), OpenTag(Ol), <<>>, unordered, 1)

\* consolidateBlockquotes replacing the pair by an opening tag
consolidateBlockquotesKeepingOpen(text) ==
  replaceAdjacentFrom(CloseTag(Blockquote), OpenTag(Blockquote),
                      OpenTag(Blockquote), text, 1)

consolidateBlockquotes(text) ==
  replaceAdjacentFrom(CloseTag(Blockquote), OpenTag(Blockquote), <<"\n">>, text, 1)

(***************************************************************************)
(* The state machine: one parse call, statement by statement.              *)
(***************************************************************************)
\* null and undefined, which are no texts
Null == <<"null">>

Undefined == <<"undefined">>

\* the arguments for which !markdown holds
Falsy == {<<>>, Null, Undefined}

\* the parser is used without an editor
NoEditor ==
  /\ build = "none"
  /\ parser = <<>>
  /\ markdownInput = <<>>
  /\ previewPane = <<>>
  /\ debounceTimer = 0
  /\ timers = {}
  /\ nextTimer = 1
  /\ frames = <<>>
  /\ uncaught = FALSE
  /\ exported = <<>>
  /\ burst = 0
  /\ updates = <<>>
  /\ lastUpdate = "ok"
  /\ events = 0
  /\ storage = Null

\* new MarkdownParser(), then parse(md) is called
InitParse(md) ==
  /\ rules = initializeRules
  /\ markdown = md
  /\ html = <<>>
  /\ codeBlocks = <<>>
  /\ inlineCode = <<>>
  /\ ruleIdx = 0
  /\ pc = "start"
  /\ escapeArg = <<>>
  /\ escapeResults = <<>>
  /\ calls = <<>>
  /\ NoEditor

\* if (!markdown) return ''
ParseEmpty ==
  /\ pc = "start"
  /\ markdown \in Falsy
  /\ html' = <<>>
  /\ pc' = "done"
  /\ UNCHANGED <<rules, markdown, codeBlocks, inlineCode, ruleIdx, escapeVars, callerVars>>

\* parse with one codeBlocks table on the instance instead of one per call:
\* the matches are pushed after those of the calls before
ProtectCodeBlocksOnInstance ==
  /\ pc = "start"
  /\ markdown \notin Falsy
  /\ LET r == protectFrom(CodeBlockKey, markdown, 1, Len(codeBlocks))
     IN html' = r.html /\ codeBlocks' = codeBlocks \o r.table
  /\ pc' = "inlineCode"
  /\ UNCHANGED <<rules, markdown, inlineCode, ruleIdx, escapeVars, callerVars>>

\* html = markdown with every fenced block replaced by its placeholder
ProtectCodeBlocks ==
  /\ pc = "start"
  /\ markdown \notin Falsy
  /\ LET r == protectCodeBlocks(markdown)
     IN html' = r.html /\ codeBlocks' = r.table
  /\ pc' = "inlineCode"
  /\ UNCHANGED <<rules, markdown, inlineCode, ruleIdx, escapeVars, callerVars>>

\* every inline code span replaced by its placeholder
ProtectInlineCode ==
  /\ pc = "inlineCode"
  /\ LET r == protectInlineCode(html)
     IN html' = r.html /\ inlineCode' = r.table
  /\ pc' = "tables"
  /\ UNCHANGED <<rules, markdown, codeBlocks, ruleIdx, escapeVars, callerVars>>

\* html = this.parseTables(html)
ParseTables ==
  /\ pc = "tables"
  /\ html' = parseTables(html)
  /\ ruleIdx' = 1
  /\ pc' = "rules"
  /\ UNCHANGED <<rules, markdown, codeBlocks, inlineCode, escapeVars, callerVars>>

\* one turn of this.rules.forEach(rule => html = html.replace(...))
ApplyRule ==
  /\ pc = "rules"
  /\ ruleIdx <= Len(rules)
  /\ html' = ReplaceAll(rules[ruleIdx], html)
  /\ ruleIdx' = ruleIdx + 1
  /\ pc' = IF ruleIdx = Len(rules) THEN "restoreBlocks" ELSE "rules"
  /\ UNCHANGED <<rules, markdown, codeBlocks, inlineCode, escapeVars, callerVars>>

\* codeBlocks.forEach(...)
RestoreCodeBlocks ==
  /\ pc = "restoreBlocks"
  /\ html' = restoreCodeBlocks(html, codeBlocks, 0)
  /\ pc' = "restoreInline"
  /\ UNCHANGED <<rules, markdown, codeBlocks, inlineCode, ruleIdx, escapeVars, callerVars>>

\* inlineCode.forEach(...)
RestoreInlineCode ==
  /\ pc = "restoreInline"
  /\ html' = restoreInlineCode(html, inlineCode, 0)
  /\ pc' = "lists"
  /\ UNCHANGED <<rules, markdown, codeBlocks, inlineCode, ruleIdx, escapeVars, callerVars>>

\* html = this.consolidateLists(html)
ConsolidateLists ==
  /\ pc = "lists"
  /\ html' = consolidateLists(html)
  /\ pc' = "quotes"
  /\ UNCHANGED <<rules, markdown, codeBlocks, inlineCode, ruleIdx, escapeVars, callerVars>>

\* html = this.consolidateBlockquotes(html)
ConsolidateBlockquotes ==
  /\ pc = "quotes"
  /\ html' = consolidateBlockquotes(html)
  /\ pc' = "trim"
  /\ UNCHANGED <<rules, markdown, codeBlocks, inlineCode, ruleIdx, escapeVars, callerVars>>

\* return html.trim()
Return ==
  /\ pc = "trim"
  /\ html' = trim(html)
  /\ pc' = "done"
  /\ UNCHANGED <<rules, markdown, codeBlocks, inlineCode, ruleIdx, escapeVars, callerVars>>

Next ==
  \/ ParseEmpty
  \/ ProtectCodeBlocks
  \/ ProtectInlineCode
  \/ ParseTables
  \/ ApplyRule
  \/ RestoreCodeBlocks
  \/ RestoreInlineCode
  \/ ConsolidateLists
  \/ ConsolidateBlockquotes
  \/ Return

\* the states in which parse has returned html
Returned == pc = "done"

(***************************************************************************)
(* Inputs.                                                                 *)
(***************************************************************************)
\* lines.join('\n')
RECURSIVE JoinLines(_)
JoinLines(lines) ==
  IF Len(lines) = 0 THEN <<>>
  ELSE IF Len(lines) = 1 THEN lines[1]
  ELSE lines[1] \o <<"\n">> \o JoinLines(Tail(lines))

\* the sequences of 1..n elements of S
SeqsUpTo(S, n) == UNION {[1..k -> S] : k \in 1..n}

\* the documents of 1..n lines, each line from the set lines
DocsOf(lines, n) == {JoinLines(ls) : ls \in SeqsUpTo(lines, n)}

\* a parse call on one of the documents of the set docs (the empty document
\* included, which parse answers at once)
InitDocs(docs) == \E md \in docs \cup {<<>>} : InitParse(md)

(***************************************************************************)
(* Code spans and fenced blocks.                                           *)
(***************************************************************************)
Code == <<"c", "o", "d", "e">>

\* the literal contents of the code in the documents below
CodeContents == {<<"<", "t", "a", "g", ">">>, <<"a">>, <<"a", "&", "b">>}

\* the languages named after an opening fence (none, or js)
CodeLanguages == {<<>>, <<"j", "s">>}

InlineSpan(c) == <<Backtick>> \o c \o <<Backtick>>

FencedBlock(lang, c) == Fence \o lang \o <<"\n">> \o c \o <<"\n">> \o Fence

CodeLines ==
  {InlineSpan(c) : c \in CodeContents}
    \cup {FencedBlock(lang, c) : lang \in CodeLanguages, c \in {<<"<", "t", "a", "g", ">">>, <<"a">>}}
    \cup {<<"x">>, <<"s", "e", "e", " ">> \o InlineSpan(<<"a">>)}

MaxCodeLines == 2

CodeDocs == DocsOf(CodeLines, MaxCodeLines)

InitCode == InitDocs(CodeDocs)

SpecCode == InitCode /\ [][Next]_vars

\* the markup the contract gives an inline span with content c
InlineCodeMarkup(c) == Wrap(Code, escapeHtml(c))

\* the markup the contract gives a fenced block with content c
FencedCodeMarkup(lang, c) ==
  PreCodeOpen \o (IF lang = <<>> THEN Plaintext ELSE lang) \o <<"\"", ">">>
    \o escapeHtml(c) \o PreCodeClose

\* C1: when parse has returned, every inline code span of the document is in
\* the output as <code>...</code> around its HTML-escaped content, and every
\* fenced block as <pre><code class="language-...">...</code></pre> around its
\* HTML-escaped content; no rule has altered either.
C1_CodeIsRenderedVerbatim ==
  Returned =>
    /\ \A c \in CodeContents :
         Contains(markdown, InlineSpan(c)) => Contains(html, InlineCodeMarkup(c))
    /\ \A lang \in CodeLanguages, c \in CodeContents :
         Contains(markdown, FencedBlock(lang, c))
           => Contains(html, FencedCodeMarkup(lang, c))

(***************************************************************************)
(* Images and links.                                                       *)
(***************************************************************************)
ImageAlts == {<<"a", "l", "t">>, <<"a">>}

LinkLabels == {<<"h", "e", "r", "e">>}

Urls == {<<"u">>, <<"x", ".", "p", "n", "g">>}

Image(alt, url) == <<"!", "[">> \o alt \o <<"]", "(">> \o url \o <<")">>

Link(label, url) == <<"[">> \o label \o <<"]", "(">> \o url \o <<")">>

ImageLines ==
  {Image(alt, url) : alt \in ImageAlts, url \in Urls}
    \cup {Link(label, url) : label \in LinkLabels, url \in Urls}
    \cup {Image(<<>>, <<"u">>), <<"s", "e", "e", " ">> \o Image(<<"a">>, <<"u">>), <<"x">>}

MaxImageLines == 2

ImageDocs == DocsOf(ImageLines, MaxImageLines)

InitImage == InitDocs(ImageDocs)

SpecImage == InitImage /\ [][Next]_vars

\* <img src="url" alt="alt">
ImgMarkup(alt, url) == ImgOpen \o url \o ImgAlt \o alt \o <<"\"", ">">>

\* <a href="url">label</a>
AnchorMarkup(label, url) ==
  AnchorOpen \o url \o <<"\"", ">">> \o label \o CloseTag(<<"a">>)

\* C2: when parse has returned, every image ![alt](url) of the document with
\* a non-empty alt is in the output as <img src="url" alt="alt">, and the
\* link rule has made no <a> element of its bracket text.
C2_ImageIsNotALink ==
  Returned =>
    \A alt \in ImageAlts, url \in Urls :
      Contains(markdown, Image(alt, url))
        => /\ Contains(html, ImgMarkup(alt, url))
           /\ ~Contains(html, AnchorMarkup(alt, url))

(***************************************************************************)
(* Task lists.                                                             *)
(***************************************************************************)
\* the characters c of `- [c] text` the contract names
CheckboxChars == {" ", "x", "X"}

TaskTexts == {<<"d", "o", "n", "e">>, <<"t", "o", "d", "o">>}

TaskLine(c, text) == <<"-", " ", "[">> \o <<c>> \o <<"]", " ">> \o text

\* the task lines of a document, as records
TaskEntries == [c : CheckboxChars, text : TaskTexts]

MaxTaskLines == 2

TaskDoc(entries) ==
  JoinLines([k \in 1..Len(entries) |-> TaskLine(entries[k].c, entries[k].text)])

TaskDocs == {TaskDoc(entries) : entries \in SeqsUpTo(TaskEntries, MaxTaskLines)}

InitTask == InitDocs(TaskDocs \cup {<<"-", " ", "a">>})

SpecTask == InitTask /\ [][Next]_vars

\* the parts of text that follow each occurrence of pat, each up to the next
\* occurrence
RECURSIVE PartsAfter(_, _)
PartsAfter(text, pat) ==
  LET p == IndexOfFrom(text, 1, pat)
  IN IF p = 0 THEN <<>>
     ELSE LET rest == SubSeq(text, p + Len(pat), Len(text))
              q == IndexOfFrom(rest, 1, pat)
          IN <<IF q = 0 THEN rest ELSE SubSeq(rest, 1, q - 1)>> \o PartsAfter(rest, pat)

TaskItemTag == <<"<", "l", "i", " ", "c", "l", "a", "s", "s", "=", "\"", "t", "a", "s", "k", "-", "i", "t", "e", "m", "\"", ">">>

\* C3: when parse has returned a document of lines `- [c] text`, with c a
\* space, x or X, the output has one <li class="task-item"> per line, in
\* order, each holding a disabled checkbox that is checked exactly when c is
\* x or X, followed by the text; and it has no plain <li>.
C3_TaskItemsAreCheckboxes ==
  Returned =>
    \A entries \in SeqsUpTo(TaskEntries, MaxTaskLines) :
      markdown = TaskDoc(entries) =>
        LET items == PartsAfter(html, TaskItemTag)
        IN /\ Len(items) = Len(entries)
           /\ \A k \in 1..Len(entries) :
                /\ Contains(items[k], CheckboxOpen)
                /\ Contains(items[k], CheckboxClose)
                /\ Contains(items[k], CheckedAttr) <=> entries[k].c \in {"x", "X"}
                /\ Contains(items[k], entries[k].text)
           /\ ~Contains(html, OpenTag(<<"l", "i">>))

(***************************************************************************)
(* Tables.                                                                 *)
(***************************************************************************)
MaxColumns == 2

MaxRows == 2

\* | 1 | ... | n |  without the spaces
TableLine(cell, n) == <<"|">> \o Concat([k \in 1..n |-> <<cell, "|">>])

\* a header of n columns, its separator, and one body row of cells[k] cells
\* for each k
TableDoc(n, cells) ==
  JoinLines(<<TableLine("h", n), TableLine("-", n)>>
            \o [k \in 1..Len(cells) |-> TableLine("c", cells[k])])

RowShapes == SeqsUpTo(1..(MaxColumns + 1), MaxRows) \cup {<<>>}

TableDocs == {TableDoc(n, cells) : n \in 1..MaxColumns, cells \in RowShapes}

InitTable == InitDocs(TableDocs)

SpecTable == InitTable /\ [][Next]_vars

Tr == <<"t", "r">>

Th == <<"t", "h">>

Td == <<"t", "d">>

\* C4: when parse has returned a table whose header has n cells, the output
\* has n <th> in its header row, and each body row has as many <td> as the
\* input row has cells, but never more than n: the cells beyond the header's
\* count are dropped.
C4_ColumnCountIsTheHeaders ==
  Returned =>
    \A n \in 1..MaxColumns, cells \in RowShapes :
      markdown = TableDoc(n, cells) =>
        LET trs == PartsAfter(html, OpenTag(Tr))
        IN /\ Len(trs) = 1 + Len(cells)
           /\ Count(trs[1], OpenTag(Th)) = n
           /\ \A k \in 1..Len(cells) :
                Count(trs[k + 1], OpenTag(Td)) = Min({cells[k], n})

(***************************************************************************)
(* Runs of pipe-delimited lines.                                           *)
(***************************************************************************)
PipeLines ==
  {<<"|", "a", "|", "b", "|">>, <<"|", "-", "|", "-", "|">>, <<"|", ":", "-", ":", "|", "-", ":", "|">>, <<"|", " ", "-", "-", " ", "|">>, <<"|", "-", "|", "x", "|">>, <<"|", ":", "|", "-", "|">>}

MaxPipeLines == 3

\* a line of plain text before the run
PlainLineBefore == <<"t", "e", "x", "t", "\n">>

PipeRuns == DocsOf(PipeLines, MaxPipeLines)

PipeDocs == PipeRuns \cup {PlainLineBefore \o run : run \in PipeRuns}

InitPipes == InitDocs(PipeDocs)

SpecPipes == InitPipes /\ [][Next]_vars

Spaces(n) == [k \in 1..n |-> " "]

Dashes(n) == [k \in 1..n |-> "-"]

OptionalColon == {<<>>, <<":">>}

OptionalPipe == {<<>>, <<"|">>}

\* a cell of an alignment separator: dashes, at least one, with an optional
\* colon on either side and optional spaces around
ValidSeparatorCell(cell) ==
  \E i \in 0..Len(cell), j \in 1..Len(cell), k \in 0..Len(cell) :
    \E l \in OptionalColon, r \in OptionalColon :
      cell = Spaces(i) \o l \o Dashes(j) \o r \o Spaces(k)

\* an alignment-separator row: such cells separated by pipes, with an
\* optional pipe at either end
ValidSeparatorRow(line) ==
  \E lead \in OptionalPipe, trail \in OptionalPipe :
    /\ Len(lead) + Len(trail) <= Len(line)
    /\ SubSeq(line, 1, Len(lead)) = lead
    /\ SubSeq(line, Len(line) - Len(trail) + 1, Len(line)) = trail
    /\ LET cells == split(SubSeq(line, Len(lead) + 1, Len(line) - Len(trail)), "|")
       IN \A n \in 1..Len(cells) : ValidSeparatorCell(cells[n])

\* the lines of the run of pipe-delimited lines of a document
RunLines(md) ==
  split(IF StartsWithAt(md, 1, PlainLineBefore)
        THEN SubSeq(md, Len(PlainLineBefore) + 1, Len(md)) ELSE md, "\n")

\* the run has fewer than two lines, or its second line is no separator row
InvalidRun(md) == Len(RunLines(md)) < 2 \/ ~ValidSeparatorRow(RunLines(md)[2])

P == <<"p">>

\* C5: for a document whose run of pipe-delimited lines is not a valid table,
\* parseTables returns the text unchanged, no state after it has <table in
\* html, and parse returns each line of the run as the paragraph rule renders
\* it.
C5_InvalidRunIsNoTable ==
  (markdown # <<>> /\ InvalidRun(markdown)) =>
    /\ (pc = "rules" /\ ruleIdx = 1) => html = markdown
    /\ pc \notin {"start", "inlineCode", "tables"} => ~Contains(html, <<"<", "t", "a", "b", "l", "e">>)
    /\ Returned =>
         \A k \in 1..Len(RunLines(markdown)) :
           Contains(html, Wrap(P, RunLines(markdown)[k]))

\* parse has returned a run of three lines whose second line is no separator
\* row although its third is
C5_Witness ==
  /\ Returned
  /\ Len(RunLines(markdown)) = 3
  /\ ~ValidSeparatorRow(RunLines(markdown)[2])
  /\ ValidSeparatorRow(RunLines(markdown)[3])
  /\ Contains(html, OpenTag(P) \o RunLines(markdown)[3] \o CloseTag(P))

(***************************************************************************)
(* Lists.                                                                  *)
(***************************************************************************)
ItemTexts == {<<"i", "t", "e", "m">>, <<"b">>}

MaxItems == 3

\* the number of the first item of an ordered list
FirstOrdinals == {1, 9}

ItemLists == SeqsUpTo(ItemTexts, MaxItems)

UnorderedDoc(items) == JoinLines([k \in 1..Len(items) |-> <<"-", " ">> \o items[k]])

OrderedDoc(first, items) ==
  JoinLines([k \in 1..Len(items) |->
               numberToString(first + k - 1) \o <<".", " ">> \o items[k]])

ListDocs ==
  {UnorderedDoc(items) : items \in ItemLists}
    \cup {OrderedDoc(first, items) : first \in FirstOrdinals, items \in ItemLists}

InitList == InitDocs(ListDocs)

SpecList == InitList /\ [][Next]_vars

Li == <<"l", "i">>

\* text is one <list> element whose children are one <li> per item, in order
IsOneList(text, list, items) ==
  LET lis == PartsAfter(text, OpenTag(Li))
  IN /\ Count(text, OpenTag(list)) = 1
     /\ Count(text, CloseTag(list)) = 1
     /\ StartsWithAt(text, 1, OpenTag(list))
     /\ StartsWithAt(text, Len(text) - Len(CloseTag(list)) + 1, CloseTag(list))
     /\ Len(lis) = Len(items)
     /\ \A k \in 1..Len(items) : StartsWithAt(lis[k], 1, items[k] \o CloseTag(Li))

\* C6: when parse has returned a document of N consecutive `- item` lines,
\* the output is exactly one <ul> element with N <li> children in input
\* order; and a document of N consecutive `k. item` lines gives exactly one
\* <ol> in the same way.
C6_ItemsAreOneList ==
  Returned =>
    \A items \in ItemLists :
      /\ markdown = UnorderedDoc(items) => IsOneList(html, Ul, items)
      /\ \A first \in FirstOrdinals :
           markdown = OrderedDoc(first, items) => IsOneList(html, Ol, items)

\* parse has returned one list that consolidateLists made of three or more
\* one-item lists
C6_Witness ==
  /\ Returned
  /\ Count(markdown, <<"\n">>) >= 2
  /\ Count(html, OpenTag(Li)) >= 3
  /\ Count(html, OpenTag(Ul)) + Count(html, OpenTag(Ol)) = 1

(***************************************************************************)
(* Headings.                                                               *)
(***************************************************************************)
\* the heading levels of initializeRules
MaxLevel == 6

HeadingTexts == {<<"x">>, <<"a", " ", "b">>}

Hashes(k) == [n \in 1..k |-> "#"]

HeadingLine(k, text) == Hashes(k) \o <<" ">> \o text

\* the element name of a heading of level k
H(k) == <<"h">> \o numberToString(k)

IsHeadingLine(line) ==
  \E k \in 1..MaxLevel, text \in HeadingTexts : line = HeadingLine(k, text)

\* heading lines, a line that is a marker alone, and a line of plain text
HeadingDocLines ==
  {HeadingLine(k, text) : k \in 1..MaxLevel, text \in HeadingTexts}
    \cup {<<"#">>, <<"x">>}

MaxHeadingLines == 2

HeadingLineLists == SeqsUpTo(HeadingDocLines, MaxHeadingLines)

HeadingDocs == {JoinLines(ls) : ls \in HeadingLineLists}

InitHeading == InitDocs(HeadingDocs)

SpecHeading == InitHeading /\ [][Next]_vars

\* the indices of text at which a heading tag starts: an opening tag, or a
\* closing tag
HeadingTags(text, closing) ==
  {p \in 1..Len(text) :
     \E k \in 1..MaxLevel :
       StartsWithAt(text, p, IF closing THEN CloseTag(H(k)) ELSE OpenTag(H(k)))}

\* every heading element of text opens outside every other heading element
NoNestedHeadings(text) ==
  \A p \in HeadingTags(text, FALSE) :
    Cardinality({q \in HeadingTags(text, FALSE) : q < p})
      = Cardinality({q \in HeadingTags(text, TRUE) : q < p})

\* C7: when parse has returned, every line of k # characters, a space and
\* text is in the output as <hk>text</hk>, once per such line, and no heading
\* element of the output is nested in another.
C7_OneHeadingPerLine ==
  Returned =>
    \A ls \in HeadingLineLists :
      (markdown = JoinLines(ls) /\ \E i \in 1..Len(ls) : IsHeadingLine(ls[i])) =>
        /\ \A k \in 1..MaxLevel, text \in HeadingTexts :
             Count(html, Wrap(H(k), text))
               = Cardinality({i \in 1..Len(ls) : ls[i] = HeadingLine(k, text)})
        /\ NoNestedHeadings(html)

(***************************************************************************)
(* Text without Markdown syntax.                                           *)
(***************************************************************************)
\* lines without Markdown syntax: two of text, an empty one, and one of
\* whitespace only
PlainLines == {<<"a">>, <<"b", " ", "c">>, <<>>, <<" ">>}

MaxPlainLines == 3

PlainLineLists == SeqsUpTo(PlainLines, MaxPlainLines)

PlainDocs == {JoinLines(ls) : ls \in PlainLineLists}

InitPlain == InitDocs(PlainDocs)

SpecPlain == InitPlain /\ [][Next]_vars

\* a blank line: empty, or spaces and tabs only
IsBlank(line) == \A k \in 1..Len(line) : line[k] \in {" ", "\t"}

\* C8: when parse has returned a document without Markdown syntax, the
\* output is the document with each non-blank line wrapped in <p>...</p>,
\* its text unchanged, and nothing else changed (up to the whitespace parse
\* trims at both ends).
C8_OnlyNonBlankLinesAreWrapped ==
  Returned =>
    \A ls \in PlainLineLists :
      markdown = JoinLines(ls) =>
        html = trim(JoinLines([k \in 1..Len(ls) |->
                                 IF IsBlank(ls[k]) THEN ls[k] ELSE Wrap(P, ls[k])]))

(***************************************************************************)
(* Documents of every kind of block: the default specification.            *)
(***************************************************************************)
Blocks ==
  {<<"#", " ", "a", "\n", "#", "#", " ", "b", "\n", "#", "#", "#", " ", "c">>, <<"#", "#", "#", "#", " ", "a", "\n", "#", "#", "#", "#", "#", " ", "b", "\n", "#", "#", "#", "#", "#", "#", " ", "c">>,
   <<"-", " ", "a", "\n", "-", " ", "b", "\n", "1", ".", " ", "c", "\n", "2", ".", " ", "d">>, <<"-", " ", "[", "x", "]", " ", "a">>, <<">", " ", "a">>,
   <<"*", "*", "a", "*", "*", " ", "_", "b", "_", " ", "~", "~", "c", "~", "~", " ", "[", "d", "]", "(", "u", ")">>, <<"a", " ", Backtick, "b", Backtick>>, <<Backtick, Backtick, Backtick, "j", "s", "\n", "a", "\n", Backtick, Backtick, Backtick>>,
   <<"|", "a", "|", "b", "|", "\n", "|", "-", "|", ":", "-", ":", "|", "\n", "|", "1", "|", "2", "|">>}

MaxBlocks == 2

Init == InitDocs(DocsOf(Blocks, MaxBlocks))

Spec == Init /\ [][Next]_vars

\* the element names the renderer generates
ElementNames ==
  {P, Ul, Ol, Li, Blockquote, Strong, Em, Del, <<"a">>, Code, <<"p", "r", "e">>,
   <<"t", "a", "b", "l", "e">>, <<"t", "h", "e", "a", "d">>, <<"t", "b", "o", "d", "y">>, Tr, Th, Td}
    \cup {H(k) : k \in 1..MaxLevel}

\* the number of opening tags of an element in text, with or without
\* attributes
Opened(text, name) ==
  Count(text, <<"<">> \o name \o <<">">>) + Count(text, <<"<">> \o name \o <<" ">>)

Closed(text, name) == Count(text, <<"<", "/">> \o name \o <<">">>)

\* C9: once the rules have run, in every later state of parse (before and
\* after consolidateLists, after consolidateBlockquotes, and in the returned
\* output) html has, for each element name the renderer generates, as many
\* closing tags as opening tags.
C9_TagsAreBalanced ==
  pc \in {"restoreBlocks", "restoreInline", "lists", "quotes", "trim", "done"} =>
    \A name \in ElementNames : Opened(html, name) = Closed(html, name)

\* parse has returned a document in which a consolidator deleted tags: two
\* lists of two items each made of four one-item lists, or one quote made of
\* two
C9_Witness ==
  /\ Returned
  /\ \/ Count(html, OpenTag(Li)) >= 4 /\ Opened(html, Ul) = 1
     \/ Count(markdown, <<">", " ", "a">>) >= 2 /\ Opened(html, Blockquote) = 1

(***************************************************************************)
(* escapeHtml called directly, and called again on its own result.         *)
(***************************************************************************)
EscapedChars == {"&", "<", ">", "\"", "'"}

EscapeAlphabet == EscapedChars \cup {"b"}

MaxEscapeLen == 3

MaxEscapeCalls == 2

EscapeTexts ==
  UNION {[1..n -> EscapeAlphabet] : n \in 0..MaxEscapeLen} \cup {<<"<", "b", ">", "&">>}

\* no parse call is running; escapeHtml is about to be called on a text
InitEscape ==
  /\ rules = initializeRules
  /\ markdown = <<>>
  /\ html = <<>>
  /\ codeBlocks = <<>>
  /\ inlineCode = <<>>
  /\ ruleIdx = 0
  /\ pc = "idle"
  /\ escapeArg \in EscapeTexts
  /\ escapeResults = <<>>
  /\ calls = <<>>
  /\ NoEditor

\* escapeHtml(escapeArg), then escapeHtml of the result of the call before
EscapeHtml ==
  /\ pc = "idle"
  /\ Len(escapeResults) < MaxEscapeCalls
  /\ escapeResults' =
       Append(escapeResults,
              escapeHtml(IF escapeResults = <<>> THEN escapeArg
                         ELSE escapeResults[Len(escapeResults)]))
  /\ UNCHANGED <<rules, parseVars, escapeArg, callerVars>>

NextEscape == EscapeHtml

SpecEscape == InitEscape /\ [][NextEscape]_vars

\* what the five characters become: four named entities and one numeric
\* character reference
Replacement(char) ==
  CASE char = "&" -> <<"&", "a", "m", "p", ";">>
    [] char = "<" -> <<"&", "l", "t", ";">>
    [] char = ">" -> <<"&", "g", "t", ";">>
    [] char = "\"" -> <<"&", "q", "u", "o", "t", ";">>
    [] char = "'" -> <<"&", "#", "3", "9", ";">>

\* C10 (amended): escapeHtml replaces every & < > " by &amp; &lt; &gt; &quot;
\* and every ' by the numeric reference &#39;, and leaves every other
\* character unchanged, so escapeHtml("<b>&") = "&lt;b&gt;&amp;"; and for a
\* text with at least one of the five characters, escapeHtml of the result
\* differs from the result.
C10_EscapesFiveCharactersOnce ==
  /\ Len(escapeResults) >= 1 =>
       /\ escapeResults[1] =
            Concat([k \in 1..Len(escapeArg) |->
                      IF escapeArg[k] \in EscapedChars
                      THEN Replacement(escapeArg[k]) ELSE <<escapeArg[k]>>])
       /\ escapeArg = <<"<", "b", ">", "&">> => escapeResults[1] = <<"&", "l", "t", ";", "b", "&", "g", "t", ";", "&", "a", "m", "p", ";">>
  /\ (Len(escapeResults) >= 2 /\ \E k \in 1..Len(escapeArg) : escapeArg[k] \in EscapedChars)
       => escapeResults[2] # escapeResults[1]

\* escapeHtml has run twice on a text with an apostrophe, and the second
\* result differs from the first
C10_Witness ==
  /\ Len(escapeResults) = 2
  /\ \E k \in 1..Len(escapeArg) : escapeArg[k] = "'"
  /\ Contains(escapeResults[1], <<"&", "#", "3", "9", ";">>)
  /\ escapeResults[2] # escapeResults[1]

\* & followed by letters and ;
IsNamedEntity(text) ==
  /\ Len(text) >= 3
  /\ text[1] = "&"
  /\ text[Len(text)] = ";"
  /\ \A k \in 2..(Len(text) - 1) : text[k] \in Letters

\* C10 (as stated): escapeHtml replaces each of the five characters by its
\* named entity.
C10_EachBecomesANamedEntity ==
  \A char \in EscapedChars :
    (escapeArg = <<char>> /\ Len(escapeResults) >= 1) => IsNamedEntity(escapeResults[1])


(***************************************************************************)
(* Repeated parse calls on one MarkdownParser instance.                    *)
(***************************************************************************)
\* the arguments of the calls: code spans and fenced blocks (one and two
\* entries in the placeholder tables), lines the rules rewrite, a table
SharedDocs ==
  {<<Backtick, "a", Backtick>>, <<Backtick, "a", Backtick, " ", Backtick, "b", Backtick>>, <<Backtick, Backtick, Backtick, "\n", "a", "\n", Backtick, Backtick, Backtick>>, <<"#", " ", "a">>, <<"-", " ", "a", "\n", "-", " ", "b">>, <<"|", "a", "|", "\n", "|", "-", "|">>}

\* the number of calls made on the instance
MaxCalls == 3

InitShared == InitDocs(SharedDocs)

\* parse(md) is called again on the same instance once the call before has
\* returned; the call is recorded with its result.  The new call binds its
\* own html, codeBlocks and inlineCode when its first statements run.
ParseAgain ==
  /\ pc = "done"
  /\ Len(calls) + 1 < MaxCalls
  /\ \E md \in SharedDocs \cup {<<>>} : markdown' = md
  /\ calls' = Append(calls, [markdown |-> markdown, html |-> html])
  /\ pc' = "start"
  /\ UNCHANGED <<rules, html, codeBlocks, inlineCode, ruleIdx, escapeVars, editorVars>>

NextShared ==
  \/ Next
  \/ ParseAgain

SpecShared == InitShared /\ [][NextShared]_vars

\* the statements of parse after both placeholder tables are filled
AfterProtect ==
  {"tables", "rules", "restoreBlocks", "restoreInline", "lists", "quotes", "trim", "done"}

\* C11: on a shared instance, after any sequence of earlier calls, the rule
\* list is the one the constructor built, the placeholder tables of a call
\* hold the code of that call's argument only, and the call returns what every
\* earlier call with the same argument returned.
C11_ParseIsPure ==
  /\ rules = initializeRules
  /\ (markdown # <<>> /\ pc \in AfterProtect) =>
       /\ codeBlocks = protectCodeBlocks(markdown).table
       /\ inlineCode = protectInlineCode(protectCodeBlocks(markdown).html).table
  /\ Returned =>
       \A k \in 1..Len(calls) :
         calls[k].markdown = markdown => calls[k].html = html

\* a third call has returned, with the argument of the first call, after a
\* call with another argument and another fenced block in between
C11_Witness ==
  /\ Returned
  /\ Len(calls) = 2
  /\ calls[1].markdown = markdown
  /\ calls[2].markdown = <<Backtick, Backtick, Backtick, "\n", "a", "\n", Backtick, Backtick, Backtick>>
  /\ markdown = <<Backtick, "a", Backtick, " ", Backtick, "b", Backtick>>
  /\ Len(inlineCode) = 2


(***************************************************************************)
(* The editor (class MarkdownEditor): the handlers that call parse.  A     *)
(* handler runs to completion, so parse is one step of it.                 *)
(***************************************************************************)
\* what parse(md) returns on an instance whose this.rules is ruleList: the
\* statements of the state machine above, in one
parseWith(ruleList, blocks, r) ==
  trim(consolidateBlockquotes(consolidateLists(
    restoreInlineCode(
      restoreCodeBlocks(ApplyRules(ruleList, 1, parseTables(r.html)), blocks, 0),
      r.table, 0))))

parseProtected(ruleList, r) ==
  parseWith(ruleList, r.table, protectInlineCode(r.html))

parse(ruleList, md) ==
  IF md \in Falsy THEN <<>> ELSE parseProtected(ruleList, protectCodeBlocks(md))

\* the two sources of the class
Builds == {"app.js", "part_000"}

\* the texts the buffer takes
EditorTexts == {<<>>, <<" ">>, <<"#", " ", "b">>}

\* the number of user events (input, clear or cancelled clear, file load,
\* export)
MaxEvents == 3

\* parse(text) of a new MarkdownParser() for each text of the buffer; calls
\* leave the instance as it was, so that every call returns this
Rendered == [text \in EditorTexts |-> parse(initializeRules, text)]

\* the state of the parser and of direct escapeHtml calls
parserVars == <<rules, parseVars, escapeVars, calls>>

\* the message the catch block of updatePreview writes to the preview
ErrorPlaceholder ==
  <<"<", "p", " ", "s", "t", "y", "l", "e", "=", "\"", "c", "o", "l", "o", "r", ":", " ", "r", "e", "d", ";", "\"", ">", "E", "r", "r", "o", "r", " ", "r", "e", "n", "d", "e", "r", "i", "n", "g", " ", "p", "r", "e", "v", "i", "e", "w", ".", " ", "P", "l", "e", "a", "s", "e", " ", "c", "h", "e", "c", "k", " ", "y", "o", "u", "r", " ", "M", "a", "r", "k", "d", "o", "w", "n", " ", "s", "y", "n", "t", "a", "x", ".", "<", "/", "p", ">">>

\* whether parser[value] can raise: the empty text returns at once
Faults(value) == IF value \in Falsy THEN {FALSE} ELSE BOOLEAN

\* updatePreview() with the buffer holding value, parse raising iff throws
updatePreview(value, throws) ==
  /\ lastUpdate' = IF throws THEN "threw" ELSE "ok"
  /\ IF build = "app.js"
     THEN IF throws
          THEN uncaught' = TRUE /\ UNCHANGED <<previewPane, frames>>
          ELSE previewPane' = parser[value] /\ UNCHANGED <<frames, uncaught>>
     ELSE IF throws
          THEN previewPane' = ErrorPlaceholder /\ UNCHANGED <<frames, uncaught>>
          ELSE frames' = Append(frames, parser[value])
               /\ UNCHANGED <<previewPane, uncaught>>

\* what an earlier session has left in storage: nothing, or a buffer a tick
\* of its auto-save has written
Stored == {Null} \cup {text \in EditorTexts : trim(text) # <<>>}

\* new MarkdownEditor(): the buffer is empty or holds the restored auto-save,
\* and initialize() has called updatePreview()
InitEditor ==
  /\ rules = initializeRules
  /\ markdown = <<>>
  /\ html = <<>>
  /\ codeBlocks = <<>>
  /\ inlineCode = <<>>
  /\ ruleIdx = 0
  /\ pc = "idle"
  /\ escapeArg = <<>>
  /\ escapeResults = <<>>
  /\ calls = <<>>
  /\ build \in Builds
  /\ parser = Rendered
  /\ storage \in Stored
  /\ markdownInput \in IF storage = Null THEN {<<>>} ELSE {<<>>, storage}
  /\ previewPane = IF build = "app.js" THEN parser[markdownInput] ELSE <<>>
  /\ frames = IF build = "app.js" THEN <<>> ELSE <<parser[markdownInput]>>
  /\ debounceTimer = 0
  /\ timers = {}
  /\ nextTimer = 1
  /\ uncaught = FALSE
  /\ exported = <<>>
  /\ burst = 0
  /\ updates = <<>>
  /\ lastUpdate = "ok"
  /\ events = 0

\* handleInput without clearTimeout(this.debounceTimer)
HandleInputWithoutClear ==
  /\ events < MaxEvents
  /\ \E text \in EditorTexts : markdownInput' = text
  /\ timers' = timers \cup {nextTimer}
  /\ debounceTimer' = nextTimer
  /\ nextTimer' = nextTimer + 1
  /\ burst' = burst + 1
  /\ events' = events + 1
  /\ UNCHANGED <<parserVars, build, parser, storage, previewPane, frames, uncaught, exported,
                 updates, lastUpdate>>

\* an input event on the buffer: handleInput()
HandleInput ==
  /\ events < MaxEvents
  /\ \E text \in EditorTexts : markdownInput' = text
  /\ timers' = (timers \ {debounceTimer}) \cup {nextTimer}
  /\ debounceTimer' = nextTimer
  /\ nextTimer' = nextTimer + 1
  /\ burst' = burst + 1
  /\ events' = events + 1
  /\ UNCHANGED <<parserVars, build, parser, storage, previewPane, frames, uncaught, exported,
                 updates, lastUpdate>>

\* the callback of a pending timeout runs: updatePreview()
DebounceFires ==
  /\ \E t \in timers : timers' = timers \ {t}
  /\ \E throws \in Faults(markdownInput) : updatePreview(markdownInput, throws)
  /\ updates' = Append(updates, [burst |-> burst, markdown |-> markdownInput])
  /\ burst' = 0
  /\ UNCHANGED <<parserVars, build, parser, storage, markdownInput, debounceTimer, nextTimer,
                 exported, events>>

\* the callback updatePreview passed to requestAnimationFrame runs
AnimationFrame ==
  /\ frames # <<>>
  /\ previewPane' = Head(frames)
  /\ frames' = Tail(frames)
  /\ UNCHANGED <<parserVars, build, parser, storage, markdownInput, debounceTimer, timers,
                 nextTimer, uncaught, exported, burst, updates, lastUpdate, events>>

\* clearEditor(), confirmed
ClearEditor ==
  /\ events < MaxEvents
  /\ markdownInput' = <<>>
  /\ updatePreview(<<>>, FALSE)
  /\ storage' = Null
  /\ events' = events + 1
  /\ UNCHANGED <<parserVars, build, parser, debounceTimer, timers, nextTimer, exported,
                 burst, updates>>

\* clearEditor(), the confirm dialog cancelled
ClearEditorCancelled ==
  /\ events < MaxEvents
  /\ events' = events + 1
  /\ UNCHANGED <<parserVars, build, parser, storage, markdownInput, previewPane,
                 debounceTimer, timers, nextTimer, frames, uncaught, exported, burst,
                 updates, lastUpdate>>

\* reader.onload of loadFile(file) without its call of updatePreview()
LoadFileWithoutPreview ==
  /\ events < MaxEvents
  /\ \E text \in EditorTexts : markdownInput' = text
  /\ events' = events + 1
  /\ UNCHANGED <<parserVars, build, parser, storage, previewPane, debounceTimer, timers,
                 nextTimer, frames, uncaught, exported, burst, updates, lastUpdate>>

\* reader.onload of loadFile(file)
LoadFile ==
  /\ events < MaxEvents
  /\ \E text \in EditorTexts :
       /\ markdownInput' = text
       /\ \E throws \in Faults(text) : updatePreview(text, throws)
  /\ events' = events + 1
  /\ UNCHANGED <<parserVars, build, parser, storage, debounceTimer, timers, nextTimer, exported,
                 burst, updates>>

\* saveAsHtml(): parse is called outside any try block
SaveAsHtml ==
  /\ events < MaxEvents
  /\ \E throws \in Faults(markdownInput) :
       IF throws
       THEN uncaught' = TRUE /\ UNCHANGED exported
       ELSE exported' = parser[markdownInput] /\ UNCHANGED uncaught
  /\ events' = events + 1
  /\ UNCHANGED <<parserVars, build, parser, storage, markdownInput, previewPane, debounceTimer,
                 timers, nextTimer, frames, burst, updates, lastUpdate>>

\* a tick of the interval startAutoSave() has set, storing every buffer that
\* is not empty
AutoSaveTickUntrimmed ==
  /\ storage' = IF markdownInput # <<>> THEN markdownInput ELSE storage
  /\ UNCHANGED <<parserVars, build, parser, markdownInput, previewPane, debounceTimer,
                 timers, nextTimer, frames, uncaught, exported, burst, updates,
                 lastUpdate, events>>

\* a tick of the interval startAutoSave() has set
AutoSaveTick ==
  /\ storage' = IF trim(markdownInput) # <<>> THEN markdownInput ELSE storage
  /\ UNCHANGED <<parserVars, build, parser, markdownInput, previewPane, debounceTimer,
                 timers, nextTimer, frames, uncaught, exported, burst, updates,
                 lastUpdate, events>>

NextEditor ==
  \/ HandleInput
  \/ DebounceFires
  \/ AnimationFrame
  \/ ClearEditor
  \/ ClearEditorCancelled
  \/ LoadFile
  \/ SaveAsHtml
  \/ AutoSaveTick

SpecEditor == InitEditor /\ [][NextEditor]_vars

\* the event loop runs a due timeout and a requested animation frame
SpecEditorFair ==
  SpecEditor /\ WF_vars(DebounceFires) /\ WF_vars(AnimationFrame)

\* at most one debounced update is pending, the one this.debounceTimer names,
\* and one is pending exactly while input events are unanswered
OnePending ==
  /\ Cardinality(timers) <= 1
  /\ timers \subseteq {debounceTimer}
  /\ (burst > 0) <=> (timers # {})
  /\ \A k \in 1..Len(updates) : updates[k].burst >= 1

\* the step that answers a burst is one debounced updatePreview, which reads
\* the buffer as it is then and renders it (at once, or in the next frame)
BurstAnswered ==
  (burst > 0 /\ burst' = 0) =>
    /\ Len(updates') = Len(updates) + 1
    /\ timers' = {}
    /\ updates'[Len(updates')] = [burst |-> burst, markdown |-> markdownInput']
    /\ lastUpdate' = "ok" =>
         IF build = "app.js" THEN previewPane' = parser[markdownInput']
         ELSE frames'[Len(frames')] = parser[markdownInput']

\* C12: after any sequence of input events at most one debounced update is
\* pending; a burst of n input events is answered by exactly one debounced
\* updatePreview, which runs after the last of them and renders the buffer as
\* it is then.
C12_BurstIsAnsweredOnce ==
  /\ []OnePending
  /\ [][BurstAnswered]_vars
  /\ (burst > 0) ~> (burst = 0)

\* a burst of three input events has been answered by one update
C12_Witness ==
  /\ Len(updates) = 1
  /\ updates[1].burst = 3
  /\ timers = {}
  /\ markdownInput = updates[1].markdown


\* C13: whenever parse raises while the editor renders (a preview update or
\* an HTML export), the fault is caught: no exception leaves the event handler,
\* and after a preview update that raised the preview shows the error
\* placeholder, not the output of a render.
C13_FaultIsCaught ==
  /\ uncaught = FALSE
  /\ lastUpdate = "threw" => previewPane = ErrorPlaceholder


(***************************************************************************)
(* An opening fence that is never closed.                                  *)
(***************************************************************************)
\* the fence line, without and with a language
FenceLines == {<<Backtick, Backtick, Backtick>>, <<Backtick, Backtick, Backtick, "j", "s">>}

\* the lines after it: plain text, a heading, an inline code span, emphasis
AfterFenceLines == {<<"a">>, <<"#", " ", "b">>, <<Backtick, "c", Backtick>>, <<"*", "*", "d", "*", "*">>}

MaxAfterFence == 2

AfterFenceLists == SeqsUpTo(AfterFenceLines, MaxAfterFence) \cup {<<>>}

\* the document: an optional line of text, the fence line, the lines after it
UnclosedDoc(before, fence, after) == JoinLines(before \o <<fence>> \o after)

UnclosedDocs ==
  {UnclosedDoc(before, fence, after) :
     before \in {<<>>, <<<<"x">>>>}, fence \in FenceLines, after \in AfterFenceLists}

InitUnclosed == InitDocs(UnclosedDocs)

SpecUnclosed == InitUnclosed /\ [][Next]_vars

\* C14: for a document with an opening fence and no closing fence, parse
\* extracts no fenced block and returns with the fence line's text unchanged,
\* wrapped like any other line by the paragraph rule.
C14_UnclosedFenceFallsThrough ==
  \A before \in {<<>>, <<<<"x">>>>}, fence \in FenceLines, after \in AfterFenceLists :
    markdown = UnclosedDoc(before, fence, after) =>
      /\ pc \in AfterProtect => codeBlocks = <<>>
      /\ Returned => Contains(html, Wrap(P, fence))


(***************************************************************************)
(* Column alignment.                                                       *)
(***************************************************************************)
\* the separator cells: no colon, a colon in front, at the end, on both sides
AlignCells == {<<"-">>, <<":", "-", "-">>, <<"-", "-", ":">>, <<":", "-", ":">>, <<" ", ":", "-", "-", ":", " ">>}

MaxAlignColumns == 2

MaxAlignRows == 1

AlignSeparators == SeqsUpTo(AlignCells, MaxAlignColumns)

\* the texts of the header cells and of the body cells, by column
HeaderCells == <<<<"a">>, <<"b">>, <<"c">>, <<"d">>>>

BodyCells == <<<<"1">>, <<"2">>, <<"3">>, <<"4">>>>

\* |c1|c2|...|
PipeRow(cells) == <<"|">> \o Concat([k \in 1..Len(cells) |-> cells[k] \o <<"|">>])

\* a header, the separator row of the cells seps, and r body rows
AlignDoc(seps, r) ==
  JoinLines(<<PipeRow(SubSeq(HeaderCells, 1, Len(seps))), PipeRow(seps)>>
            \o [k \in 1..r |-> PipeRow(SubSeq(BodyCells, 1, Len(seps)))])

AlignDocs == {AlignDoc(seps, r) : seps \in AlignSeparators, r \in 0..MaxAlignRows}

InitAlign == InitDocs(AlignDocs)

SpecAlign == InitAlign /\ [][Next]_vars

\* the alignment the contract gives a separator cell
ContractAlignment(sep) ==
  IF sep \in {<<":", "-", ":">>, <<" ", ":", "-", "-", ":", " ">>} THEN <<"c", "e", "n", "t", "e", "r">>
  ELSE IF sep = <<"-", "-", ":">> THEN <<"r", "i", "g", "h", "t">>
  ELSE <<"l", "e", "f", "t">>

\* the element the contract gives the cell text of a column whose separator
\* cell is sep: a style attribute exactly when the alignment is not left
ContractCell(tag, sep, text) ==
  IF ContractAlignment(sep) = <<"l", "e", "f", "t">> THEN Wrap(tag, text)
  ELSE <<"<">> \o tag \o <<" ", "s", "t", "y", "l", "e", "=", "\"", "t", "e", "x", "t", "-", "a", "l", "i", "g", "n", ":", " ">> \o ContractAlignment(sep)
       \o <<"\"", ">">> \o text \o CloseTag(tag)

InitTrim == InitDocs(PlainDocs \cup {Null, Undefined})

SpecTrim == InitTrim /\ [][Next]_vars

\* C16: parse returns the empty string for the empty string, null and
\* undefined, and what it returns never begins or ends with white space.
C16_ResultIsTrimmed ==
  Returned =>
    /\ markdown \in Falsy => html = <<>>
    /\ html # <<>> => html[1] \notin WhiteSpace /\ html[Len(html)] \notin WhiteSpace

\* a text that begins and ends with a blank line has returned as a paragraph
C16_Witness ==
  /\ Returned
  /\ markdown = <<"\n", "a", "\n">>
  /\ html = <<"<", "p", ">", "a", "<", "/", "p", ">">>


\* the words of a placeholder, which no document of CodeDocs holds
PlaceholderWords == {<<"I", "N", "L", "I", "N", "E">>, <<"C", "O", "D", "E">>, <<"B", "L", "O", "C", "K">>}

\* C17: the placeholders of the protected code pass through parseTables and
\* every rule unchanged, each occurring once in html until the restore steps
\* run, and once parse has returned nothing of a placeholder is left.
C17_PlaceholdersSurviveTheRules ==
  /\ pc \in {"rules", "restoreBlocks"} =>
       /\ \A n \in 1..Len(codeBlocks) :
            Count(html, placeholder(CodeBlockKey, n - 1)) = 1
       /\ \A n \in 1..Len(inlineCode) :
            Count(html, placeholder(InlineCodeKey, n - 1)) = 1
  /\ Returned => \A word \in PlaceholderWords : ~Contains(html, word)


\* C18: parse never returns a <p> element whose content is white space only:
\* a line of spaces and tabs makes no paragraph.
C18_NoBlankParagraph ==
  Returned =>
    \A p \in Occurrences(html, 1, OpenTag(P)) :
      LET e == IndexOfFrom(html, p, CloseTag(P))
      IN e # 0 => ~IsBlank(SubSeq(html, p + Len(OpenTag(P)), e - 1))


(***************************************************************************)
(* A line that is a block marker and nothing else.                         *)
(***************************************************************************)
\* the markers of the block rules, each alone on its line
MarkerLines == {<<"#">>, <<"#", "#", "#">>, <<">">>, <<"-">>, <<"1", ".">>, <<"-", " ", "[", " ", "]">>}

\* lines of text
MarkerTexts == {<<"x">>, <<"y", " ", "z">>}

MaxMarkerLines == 2

MarkerDocs == DocsOf(MarkerLines \cup MarkerTexts, MaxMarkerLines)

InitMarker == InitDocs(MarkerDocs)

SpecMarker == InitMarker /\ [][Next]_vars

\* how the elements of the block rules begin
BlockElements ==
  {<<"<", "h", "1">>, <<"<", "h", "2">>, <<"<", "h", "3">>, <<"<", "h", "4">>, <<"<", "h", "5">>, <<"<", "h", "6">>, <<"<", "b", "l", "o", "c", "k", "q", "u", "o", "t", "e">>, <<"<", "l", "i">>}

\* C19: a block rule matches within one line.  When parse has returned a
\* document whose first line is a marker alone and whose second line is text,
\* the text is a paragraph of its own and the output has no heading, quote or
\* list item: the marker was not joined with the next line.
C19_MarkerLineIsNotMerged ==
  Returned =>
    \A marker \in MarkerLines, text \in MarkerTexts :
      markdown = JoinLines(<<marker, text>>) =>
        /\ Contains(html, Wrap(P, text))
        /\ \A element \in BlockElements : ~Contains(html, element)


(***************************************************************************)
(* Single backticks on different lines.                                    *)
(***************************************************************************)
\* lines with one backtick, a line with a span of its own, a line of text
BacktickLines == {<<"a", " ", Backtick, "b">>, <<"c", Backtick, " ", "d">>, <<Backtick, "e", Backtick>>, <<"x">>}

MaxBacktickLines == 2

BacktickDocs == DocsOf(BacktickLines, MaxBacktickLines)

InitBacktick == InitDocs(BacktickDocs)

SpecBacktick == InitBacktick /\ [][Next]_vars

\* C20: an inline code span is on one line.  No entry of the inline-code
\* table the protect step fills holds a line break: two backticks on
\* different lines are not extracted as one span.
C20_InlineSpanIsOneLine ==
  pc \in AfterProtect =>
    \A n \in 1..Len(inlineCode) : ~Contains(inlineCode[n], <<"\n">>)


(***************************************************************************)
(* Backticks inside a fenced block.                                        *)
(***************************************************************************)
\* fenced blocks whose content (the letter q) holds a span or one backtick,
\* a span of its own, a line with one backtick, a line of text
FenceContentLines ==
  {<<Backtick, Backtick, Backtick, "\n", "q", " ", Backtick, "q", Backtick, " ", "q", "\n", Backtick, Backtick, Backtick>>, <<Backtick, Backtick, Backtick, "j", "s", "\n", Backtick, "q", "\n", Backtick, Backtick, Backtick>>, <<Backtick, "a", Backtick>>, <<"b", " ", Backtick, "c">>, <<"x">>}

MaxFenceContentLines == 2

FenceContentDocs == DocsOf(FenceContentLines, MaxFenceContentLines)

InitFenceContent == InitDocs(FenceContentDocs)

SpecFenceContent == InitFenceContent /\ [][Next]_vars

\* C21: fenced blocks are extracted before inline spans, so no entry of the
\* inline-code table holds text from inside a fenced block (here the letter
\* q, which occurs inside fenced blocks only), and the text the inline step
\* scans has no fence left.
C21_NoSpanFromInsideAFence ==
  pc \in AfterProtect =>
    /\ \A n \in 1..Len(inlineCode) : ~Contains(inlineCode[n], <<"q">>)
    /\ \A n \in 1..Len(codeBlocks) : StartsWithAt(codeBlocks[n], 1, Fence)

\* a line with one backtick, then a fenced block with a backtick inside: the
\* block is in its table and no span was extracted
C21_Witness ==
  /\ pc = "tables"
  /\ markdown = <<"b", " ", Backtick, "c", "\n", Backtick, Backtick, Backtick, "j", "s", "\n", Backtick, "q", "\n", Backtick, Backtick, Backtick>>
  /\ codeBlocks = <<<<Backtick, Backtick, Backtick, "j", "s", "\n", Backtick, "q", "\n", Backtick, Backtick, Backtick>>>>
  /\ inlineCode = <<>>


(***************************************************************************)
(* Emphasis with one, two and three markers.                               *)
(***************************************************************************)
\* texts without a marker
EmphasisTexts == {<<"a">>, <<"b", " ", "c">>}

\* the marker characters
EmphasisMarks == {"*", "_"}

\* the longest marker of the rule list has three characters
MaxMarkers == 3

\* what stands before the emphasis on its line: nothing, or a word
EmphasisPrefixes == {<<>>, <<"x", " ">>}

Marker(c, n) == [k \in 1..n |-> c]

\* the line of an entry: prefix, marker, text, marker
EmphasisLine(e) == e.pre \o Marker(e.c, e.n) \o e.t \o Marker(e.c, e.n)

EmphasisEntries ==
  [pre : EmphasisPrefixes, c : EmphasisMarks, n : 1..MaxMarkers, t : EmphasisTexts]

MaxEmphasisLines == 1

EmphasisLists == SeqsUpTo(EmphasisEntries, MaxEmphasisLines)

EmphasisDoc(es) == JoinLines([k \in 1..Len(es) |-> EmphasisLine(es[k])])

EmphasisDocs == {EmphasisDoc(es) : es \in EmphasisLists}

InitEmphasis == InitDocs(EmphasisDocs)

SpecEmphasis == InitEmphasis /\ [][Next]_vars

\* the markup the contract gives text t between n markers
ContractEmphasis(n, t) ==
  IF n = 3 THEN <<"<", "s", "t", "r", "o", "n", "g", ">", "<", "e", "m", ">">> \o t \o <<"<", "/", "e", "m", ">", "<", "/", "s", "t", "r", "o", "n", "g", ">">>
  ELSE IF n = 2 THEN <<"<", "s", "t", "r", "o", "n", "g", ">">> \o t \o <<"<", "/", "s", "t", "r", "o", "n", "g", ">">>
  ELSE <<"<", "e", "m", ">">> \o t \o <<"<", "/", "e", "m", ">">>

\* the line of the output for an entry: a line that begins with text is a
\* paragraph, a line that begins with the markup is left as it is
ContractEmphasisLine(e) ==
  IF e.pre = <<>> THEN ContractEmphasis(e.n, e.t)
  ELSE Wrap(P, e.pre \o ContractEmphasis(e.n, e.t))

\* C22: when parse has returned, text between three markers is
\* <strong><em>text</em></strong>, between two markers <strong>text</strong>
\* only, between single markers <em>text</em> only, for * and for _, and no
\* marker character is left in the output.
C22_LongestMarkerFirst ==
  Returned =>
    \A es \in EmphasisLists :
      markdown = EmphasisDoc(es) =>
        /\ html = JoinLines([k \in 1..Len(es) |-> ContractEmphasisLine(es[k])])
        /\ ~Contains(html, <<"*">>)
        /\ ~Contains(html, <<"_">>)

\* text between three stars has returned as bold italic
C22_Witness ==
  /\ Returned
  /\ markdown = <<"x", " ", "*", "*", "*", "b", " ", "c", "*", "*", "*">>
  /\ html = <<"<", "p", ">", "x", " ", "<", "s", "t", "r", "o", "n", "g", ">", "<", "e", "m", ">", "b", " ", "c", "<", "/", "e", "m", ">", "<", "/", "s", "t", "r", "o", "n", "g", ">", "<", "/", "p", ">">>


(***************************************************************************)
(* Consecutive blockquote lines.                                           *)
(***************************************************************************)
QuoteTexts == {<<"a">>, <<"b", " ", "c">>}

\* what separates two quote lines: a line break, an empty line, a line of one
\* space
QuoteGaps == {<<"\n">>, <<"\n", "\n">>, <<"\n", " ", "\n">>}

MaxQuoteLines == 2

\* the texts of the quote lines, and the gaps between them
QuoteEntries ==
  UNION {[ts : [1..n -> QuoteTexts], gaps : [1..(n - 1) -> QuoteGaps]] :
           n \in 1..MaxQuoteLines}

\* the texts, each after what comes before it: nothing, then the gaps
Interleave(ts, gaps, before) ==
  Concat([k \in 1..Len(ts) |->
            (IF k = 1 THEN <<>> ELSE gaps[k - 1]) \o before \o ts[k]])

QuoteDoc(e) == Interleave(e.ts, e.gaps, <<">", " ">>)

QuoteDocs == {QuoteDoc(e) : e \in QuoteEntries}

InitQuote == InitDocs(QuoteDocs)

SpecQuote == InitQuote /\ [][Next]_vars

\* C23: when parse has returned a document of quote lines separated only by
\* white space, the output is one <blockquote> element holding the quoted
\* texts in order, one separator (a line break or a blank line) between any
\* two of them.
C23_QuoteLinesAreOneQuote ==
  Returned =>
    \A e \in QuoteEntries :
      markdown = QuoteDoc(e) =>
        \E gap \in {<<"\n">>, <<"\n", "\n">>} :
          html = Wrap(Blockquote,
                      Interleave(e.ts, [k \in 1..Len(e.gaps) |-> gap], <<>>))


(***************************************************************************)
(* The preview of a quiet editor.                                          *)
(***************************************************************************)
\* no debounced update and no animation-frame callback is pending
Quiet == timers = {} /\ frames = <<>>

\* C24: in every state where no debounce timer and no animation-frame
\* callback is pending and the last preview update did not raise, the preview
\* pane holds parse of the current buffer: every operation that changes the
\* buffer has run or scheduled a preview update.
C24_QuietPreviewIsCurrent ==
  (Quiet /\ lastUpdate = "ok") => previewPane = parser[markdownInput]

\* both kinds of change have been rendered in the build that renders in an
\* animation frame: a debounced input and a file load
C24_Witness ==
  /\ Quiet
  /\ lastUpdate = "ok"
  /\ build = "part_000"
  /\ events = MaxEvents
  /\ Len(updates) >= 1
  /\ markdownInput # <<>>
  /\ markdownInput # updates[Len(updates)].markdown
  /\ previewPane = parser[markdownInput]


(***************************************************************************)
(* The auto-saved content.                                                 *)
(***************************************************************************)
\* a session that finds nothing in storage
InitStorage == InitEditor /\ storage = Null

SpecStorage == InitStorage /\ [][NextEditor]_vars

IsBlankText(text) == trim(text) = <<>>

\* the stored content is absent or a non-blank string
StoredIsNotBlank == storage = Null \/ ~IsBlankText(storage)

\* a step changes the stored content only by removing it in a clear that
\* empties the buffer, or by writing a buffer it leaves as it is, non-blank;
\* a confirmed clear removes the content, a tick on a blank buffer and a
\* cancelled clear leave it, and a cancelled clear leaves the buffer
StorageStep ==
  /\ storage' # storage =>
       \/ storage' = Null /\ markdownInput' = <<>>
       \/ /\ storage' = markdownInput
          /\ markdownInput' = markdownInput
          /\ ~IsBlankText(markdownInput)
  /\ ClearEditor => storage' = Null
  /\ (AutoSaveTick /\ IsBlankText(markdownInput)) => storage' = storage
  /\ ClearEditorCancelled => UNCHANGED <<markdownInput, storage>>

\* C25: starting from empty storage, the stored auto-save content is always
\* absent or a non-blank string, and it is the buffer as it was at an earlier
\* tick: a tick never writes a blank buffer, only a tick writes, a confirmed
\* clear removes the content, and a cancelled clear changes neither the buffer
\* nor the storage.
C25_StoredIsAnEarlierBuffer == []StoredIsNotBlank /\ [][StorageStep]_vars

\* a tick has stored a buffer that has since become a blank one, ticks on it
\* included
C25_Witness ==
  /\ storage # Null
  /\ markdownInput = <<" ">>
  /\ storage # markdownInput
  /\ events >= 2


(***************************************************************************)
(* Task-list fragments and the list consolidator.                          *)
(***************************************************************************)
\* the lines of a task document the task rule turns into fragments
TaskLinesOf(entries) == {k \in 1..Len(entries) : entries[k].c \in TaskMarks}

\* C26: when parse has returned a document of task lines, the output has one
\* <ul class="task-list"> element for each line the task rule matches, each
\* holding exactly one <li class="task-item">: the consolidator has merged no
\* task-list fragment with another.
C26_TaskFragmentsStaySeparate ==
  Returned =>
    \A entries \in SeqsUpTo(TaskEntries, MaxTaskLines) :
      markdown = TaskDoc(entries) =>
        LET lists == PartsAfter(html, TaskListTag)
        IN /\ Len(lists) = Cardinality(TaskLinesOf(entries))
           /\ \A k \in 1..Len(lists) : Count(lists[k], TaskItemTag) = 1

\* two consecutive task lines have been rendered as two lists
C26_Witness ==
  /\ Returned
  /\ markdown = TaskDoc(<<[c |-> " ", text |-> <<"t", "o", "d", "o">>],
                          [c |-> "x", text |-> <<"d", "o", "n", "e">>]>>)
  /\ Count(html, TaskListTag) = 2
  /\ Count(html, CloseTag(Ul)) = 2

=============================================================================
